---- MODULE Spec2Model ----
(***************************************************************************)
(* A model of the two-pass assembler (YossiAbutbul/Assembler, C).          *)
(*                                                                         *)
(* The state is the program's globals and the locals of the running       *)
(* calls: the counters IC, DC and err_found of first_pass.c, the plan      *)
(* table, the symbol table, the data image, the static instruction_index   *)
(* of second_pass.c, the AssemblyContext of assemble(), and main()'s loop  *)
(* index.  A source line is modelled after tokenisation: its label, its    *)
(* first token, and the operands the parser would read from its text.      *)
(* The source-text specification reads the characters themselves: there a  *)
(* C string is a TLA+ string and the tokens are cut from it as the code    *)
(* cuts them.                                                              *)
(* Base-4 text is a sequence of one-character strings.                     *)
(*                                                                         *)
(* Modelling decisions.                                                    *)
(*  - malloc() is assumed never to fail; outside the source-text           *)
(*    specification no line reaches the length limit.                      *)
(*  - MAX_REG_STR_LEN is used but not declared in the source; it is taken  *)
(*    to hold the text of a register.                                      *)
(*  - The source as committed has misspelt identifiers in                  *)
(*    encode_instruction_with_stored_data (soucre, immediate_words,        *)
(*    immediate_count++); they are read as source, immediate_word and      *)
(*    immediate_index++.                                                   *)
(*  - Undefined behaviour is a choice over outcomes: the uninitialised     *)
(*    accumulator of base4_to_decimal, and the value returned when         *)
(*    encode_instruction_with_stored_data falls off its end.               *)
(*  - int arithmetic that can overflow (rows * cols in parse_matrix) wraps *)
(*    to 32 bits.                                                          *)
(***************************************************************************)
EXTENDS Integers, Sequences, FiniteSets, TLC

\* ---------------------------------------------------------------- bounds

\* Most files on one command line (batch specification).
MaxUnits == 2

\* Most lines of one expanded source in the batch specification.
MaxLines == 2

\* Most lines of the expanded source in the single-unit specification.
MaxUnitLines == 3

\* Calls of symbol-table functions in one run of the symbol-table
\* specification.
MaxCalls == 3

\* Most lines of a .as file in the preprocessor specification.
MaxSourceLines == 3

\* Most values of a directive in the data-directive specification.
MaxValues == 2

\* ------------------------------------------------------ program constants

MIN_ARGC == 2

MAX_LINE_LENGTH == 81

MAX_LABEL_LENGTH == 31

BASE_IC_ADDRESS == 100

MAX_DATA_IMAGE_SIZE == 1000

MAX_INSTRUCTION_IMAGE_SIZE == 1000

MAX_SYMBOL_NAME_LENGTH == 32

MAX_MACROS == 50

MAX_MACRO_NAME_LENGTH == 32

MAX_MACRO_LINES == 100

MAX_ADDRESS == 255

INT_MAX == 2147483647

ADDRESSING_IMMEDIATE == 0

ADDRESSING_DIRECT == 1

ADDRESSING_MATRIX == 2

ADDRESSING_REGISTER == 3

INVALID_BASE4 == -9999

INST_TWO_OPERANDS == "INST_TWO_OPERANDS"

INST_ONE_OPERAND == "INST_ONE_OPERAND"

INST_NO_OPERANDS == "INST_NO_OPERANDS"

INST_INVALID == "INST_INVALID"

SYMBOL_CODE == "SYMBOL_CODE"

SYMBOL_DATA == "SYMBOL_DATA"

SYMBOL_EXTERNAL == "SYMBOL_EXTERNAL"

EXIT_SUCCESS_CODE == "EXIT_SUCCESS_CODE"

EXIT_GENERAL_ERROR == "EXIT_GENERAL_ERROR"

EXIT_FILE_NOT_FOUND == "EXIT_FILE_NOT_FOUND"

EXIT_MACRO_SYNTAX_ERROR == "EXIT_MACRO_SYNTAX_ERROR"

EXIT_FIRST_PASS_ERROR == "EXIT_FIRST_PASS_ERROR"

EXIT_SECOND_PASS_ERROR == "EXIT_SECOND_PASS_ERROR"

EXIT_WRITE_ERROR == "EXIT_WRITE_ERROR"

EXIT_FILE_EMPTY == "EXIT_FILE_EMPTY"

EXIT_MACRO_RESERVED_WORD == "EXIT_MACRO_RESERVED_WORD"

EXIT_MACRO_EXTRA_TEXT == "EXIT_MACRO_EXTRA_TEXT"

EXIT_MACRO_MISSING_END == "EXIT_MACRO_MISSING_END"

\* ---------------------------------------------------------- C arithmetic

\* a + b in a 32-bit int.
AddWrap(a, b) ==
    IF a > 0 /\ b > 0 /\ a > INT_MAX - b
    THEN (a - INT_MAX - 1) + (b - INT_MAX - 1)
    ELSE IF a < 0 /\ b < 0 /\ a < (0 - INT_MAX - 1) - b
         THEN (a + INT_MAX + 1) + (b + INT_MAX + 1)
         ELSE a + b

RECURSIVE MulWrap(_, _)
\* a * b in a 32-bit int, for b >= 0 (double and add).
MulWrap(a, b) ==
    IF b = 0 THEN 0
    ELSE LET h == MulWrap(a, b \div 2)
             d == AddWrap(h, h)
         IN IF b % 2 = 1 THEN AddWrap(d, a) ELSE d

RECURSIVE BitOr(_, _)
\* x | y for non-negative x, y.
BitOr(x, y) ==
    IF x = 0 THEN y
    ELSE IF y = 0 THEN x
    ELSE (IF x % 2 = 1 \/ y % 2 = 1 THEN 1 ELSE 0) + 2 * BitOr(x \div 2, y \div 2)

\* x << k for non-negative x.
ShiftLeft(x, k) == x * (2 ^ k)

\* ------------------------------------------------------------ base-4 text

digits == <<"a", "b", "c", "d">>

RECURSIVE ExtractDigits(_, _)
\* The loop "while (value > 0 && i < limit) temp[i++] = digits[value % 4]":
\* the digits of value, least significant first, at most limit of them.
ExtractDigits(value, limit) ==
    IF value > 0 /\ limit > 0
    THEN <<digits[(value % 4) + 1]>> \o ExtractDigits(value \div 4, limit - 1)
    ELSE <<>>

\* temp padded with 'a' up to width characters.
PadDigits(temp, width) ==
    temp \o [k \in 1..(IF Len(temp) < width THEN width - Len(temp) ELSE 0) |-> "a"]

\* The first n characters of temp, reversed.
ReverseDigits(temp, n) == [j \in 1..n |-> temp[n + 1 - j]]

decimal_to_base4(value) ==
    LET v1 == IF value < 0 THEN 1024 + value ELSE value
        v == v1 % 1024
    IN IF v = 0 THEN <<"a", "a", "a", "a", "a">>
       ELSE ReverseDigits(PadDigits(ExtractDigits(v, 10), 5), 5)

count_to_base4(value) ==
    IF value = 0 THEN <<"a">>
    ELSE LET temp == ExtractDigits(value, 10)
         IN ReverseDigits(temp, Len(temp))

address_to_base4(value) ==
    IF value = 0 THEN <<"a", "a", "a", "a">>
    ELSE ReverseDigits(PadDigits(ExtractDigits(value, 4), 4), 4)

\* The switch of base4_to_decimal: the digit of a character, -1 for the
\* default case.
digit_value(ch) ==
    CASE ch = "a" -> 0 [] ch = "b" -> 1 [] ch = "c" -> 2 [] ch = "d" -> 3
      [] OTHER -> -1

RECURSIVE SumDigits(_, _, _)
\* The loop of base4_to_decimal from index i down to 1 with the running power.
SumDigits(str, i, power) ==
    IF i = 0 THEN 0
    ELSE digit_value(str[i]) * power + SumDigits(str, i - 1, power * 4)

\* Values the uninitialised local "result" of base4_to_decimal may hold when
\* the loop starts adding to it.
UninitValues == {0, 1, -1, 512}

\* base4_to_decimal; uninit is the indeterminate initial value of result.
base4_to_decimal(base4_str, uninit) ==
    IF Len(base4_str) # 5 THEN INVALID_BASE4
    ELSE IF \E i \in 1..5 : digit_value(base4_str[i]) = -1 THEN INVALID_BASE4
    ELSE LET result == uninit + SumDigits(base4_str, 5, 1)
         IN IF result >= 512 THEN result - 1024 ELSE result

is_valid_dec_value(value) == value >= -512 /\ value <= 511

\* ----------------------------------------------------------- symbol table
\* The linked list from symbol_table_head on, as a sequence; 0 is NULL.

Symbol(name, address, type) ==
    [name |-> name, address |-> address, type |-> type,
     is_entry |-> FALSE, is_external |-> (type = SYMBOL_EXTERNAL)]

find_symbol(table, name) ==
    LET hits == {i \in 1..Len(table) : table[i].name = name}
    IN IF hits = {} THEN 0 ELSE CHOOSE i \in hits : \A j \in hits : i <= j

is_label_defined(table, name) == find_symbol(table, name) # 0

get_symbol(table, name) == find_symbol(table, name)

\* The name add_symbol stores: strncpy of at most MAX_SYMBOL_NAME_LENGTH - 1
\* characters.
StoredName(name) ==
    IF Len(name) > MAX_SYMBOL_NAME_LENGTH - 1
    THEN SubSeq(name, 1, MAX_SYMBOL_NAME_LENGTH - 1)
    ELSE name

\* The table after add_symbol: unchanged if the name exists, else the new
\* symbol is the new head.
add_symbol(table, name, address, type) ==
    IF find_symbol(table, name) # 0 THEN table
    ELSE <<Symbol(StoredName(name), address, type)>> \o table

\* The value add_symbol returns.
add_symbol_return(table, name) == find_symbol(table, name) = 0

mark_symbol_as_entry(table, name) ==
    LET i == find_symbol(table, name)
    IN IF i = 0 THEN table ELSE [table EXCEPT ![i].is_entry = TRUE]

\* The value mark_symbol_as_entry returns.
mark_symbol_as_entry_return(table, name) == find_symbol(table, name) # 0

\* A shift that moves every symbol, whatever its type.
update_every_symbol(table, icf) ==
    [i \in 1..Len(table) |-> [table[i] EXCEPT !.address = @ + icf]]

update_data_symbols(table, icf) ==
    [i \in 1..Len(table) |->
        IF table[i].type = SYMBOL_DATA
        THEN [table[i] EXCEPT !.address = @ + icf]
        ELSE table[i]]

\* ------------------------------------------------------------- reserved words

Instructions ==
    <<"mov", "cmp", "add", "sub", "lea", "clr", "not", "inc", "dec", "jmp",
      "bne", "jsr", "red", "prn", "rts", "stop">>

Registers == {"r0", "r1", "r2", "r3", "r4", "r5", "r6", "r7"}

Directives == {".data", ".string", ".mat", ".entry", ".extern"}

is_instruction(word) == \E i \in 1..Len(Instructions) : Instructions[i] = word

is_reserved_word(word) ==
    is_instruction(word) \/ word \in Registers \/ word \in Directives

\* ----------------------------------------------------------- characters
\* A C string is a TLA+ string; the character at index k (from 1) is a
\* one-character string, and the terminating NUL, read at any index past
\* the end, is "".

Letters == "abcdefghijklmnopqrstuvwxyzABCDEFGHIJKLMNOPQRSTUVWXYZ"

Digits == "0123456789"

Char(s, k) == IF k >= 1 /\ k <= Len(s) THEN SubSeq(s, k, k) ELSE ""

Among(c, chars) == \E k \in 1..Len(chars) : SubSeq(chars, k, k) = c

isspace(c) == c = " " \/ c = "\t" \/ c = "\n" \/ c = "\r"

isdigit(c) == Among(c, Digits)

isalpha(c) == Among(c, Letters)

isalnum(c) == isalpha(c) \/ isdigit(c)

\* c - '0' for a digit c.
DigitValue(c) == CHOOSE d \in 0..9 : SubSeq(Digits, d + 1, d + 1) = c

\* is_valid_label: 1..MAX_LABEL_LENGTH characters, a letter first, then
\* letters, digits and '_', and not a reserved word.
is_valid_label(label) ==
    /\ Len(label) # 0
    /\ Len(label) <= MAX_LABEL_LENGTH
    /\ isalpha(Char(label, 1))
    /\ \A k \in 1..Len(label) : isalnum(Char(label, k)) \/ Char(label, k) = "_"
    /\ ~is_reserved_word(label)

\* ------------------------------------------------------------ source lines
\* A line after trimming, as the tokens the parsers read from it: the label
\* before ':' ("" if none), the first token after the label, the operand
\* texts of an instruction, the operand of .entry/.extern, and the payload of
\* .data/.string (values) or .mat (rows, cols, values).

OperandText(form, n, name, r1, r2) ==
    [form |-> form, n |-> n, name |-> name, r1 |-> r1, r2 |-> r2]

\* "#n"
OpImm(n) == OperandText("#", n, "", 0, 0)

\* "rk"
OpReg(k) == OperandText("r", k, "", 0, 0)

\* "name[ra][rb]"
OpMat(name, ra, rb) == OperandText("[", 0, name, ra, rb)

\* "name"
OpLabel(name) == OperandText("label", 0, name, 0, 0)

Line(label, token, operands, name, rows, cols, values) ==
    [label |-> label, token |-> token, operands |-> operands, name |-> name,
     rows |-> rows, cols |-> cols, values |-> values]

InstructionLine(label, mnemonic, operands) ==
    Line(label, mnemonic, operands, "", 0, 0, <<>>)

DataLine(label, values) == Line(label, ".data", <<>>, "", 0, 0, values)

MatLine(label, rows, cols, values) ==
    Line(label, ".mat", <<>>, "", rows, cols, values)

ExternLine(name) == Line("", ".extern", <<>>, name, 0, 0, <<>>)

EntryLine(name) == Line("", ".entry", <<>>, name, 0, 0, <<>>)

\* get_next_token on the text that follows the label: the first token.
get_next_token(line) == line.token

\* ------------------------------------------------------ instruction parser

Operand(mode, value, reg1, reg2, symbol_name) ==
    [mode |-> mode, value |-> value, reg1 |-> reg1, reg2 |-> reg2,
     symbol_name |-> symbol_name]

\* An Operand after memset(operand, 0, sizeof(Operand)).
ZeroOperand == Operand(0, 0, 0, 0, "")

is_register(k) == k >= 0 /\ k <= 7

is_immediate(n) == n >= -512 /\ n <= 511

is_matrix_reference(text) ==
    is_valid_label(text.name) /\ is_register(text.r1) /\ is_register(text.r2)

\* parse_operand: the Operand read from an operand text, or failure (which
\* sets err_found).
parse_operand(text) ==
    IF text.form = "#"
    THEN IF is_immediate(text.n)
         THEN [ok |-> TRUE, operand |-> Operand(ADDRESSING_IMMEDIATE, text.n, 0, 0, "")]
         ELSE [ok |-> FALSE, operand |-> ZeroOperand]
    ELSE IF text.form = "r"
    THEN IF is_register(text.n)
         THEN [ok |-> TRUE, operand |-> Operand(ADDRESSING_REGISTER, text.n, 0, 0, "")]
         ELSE [ok |-> FALSE, operand |-> ZeroOperand]
    ELSE IF text.form = "["
    THEN IF is_matrix_reference(text)
         THEN [ok |-> TRUE,
               operand |-> Operand(ADDRESSING_MATRIX, 0, text.r1, text.r2, text.name)]
         ELSE [ok |-> FALSE, operand |-> ZeroOperand]
    ELSE IF is_valid_label(text.name)
    THEN [ok |-> TRUE, operand |-> Operand(ADDRESSING_DIRECT, 0, 0, 0, text.name)]
    ELSE [ok |-> FALSE, operand |-> ZeroOperand]

get_instruction_opcode(instruction_name) ==
    LET hits == {i \in 1..Len(Instructions) : Instructions[i] = instruction_name}
    IN IF hits = {} THEN -1 ELSE (CHOOSE i \in hits : TRUE) - 1

get_instruction_type(opcode) ==
    IF opcode >= 0 /\ opcode <= 4 THEN INST_TWO_OPERANDS
    ELSE IF opcode >= 5 /\ opcode <= 13 THEN INST_ONE_OPERAND
    ELSE IF opcode >= 14 /\ opcode <= 15 THEN INST_NO_OPERANDS
    ELSE INST_INVALID

\* A validation that looks at which operands are there and not at their modes.
validate_operand_presence(opcode, source_mode, target_mode, has_source, has_target) ==
    IF opcode < 0 \/ opcode > 15 THEN FALSE
    ELSE IF opcode <= 4 THEN has_source /\ has_target
    ELSE IF opcode <= 13 THEN ~has_source /\ has_target
    ELSE ~has_source /\ ~has_target

validate_addressing_modes(opcode, source_mode, target_mode, has_source, has_target) ==
    IF opcode < 0 \/ opcode > 15 THEN FALSE
    ELSE IF opcode = 0 \/ opcode = 2 \/ opcode = 3
    THEN has_source /\ has_target /\ source_mode >= 0 /\ source_mode <= 3
         /\ target_mode >= 1 /\ target_mode <= 3
    ELSE IF opcode = 1
    THEN has_source /\ has_target /\ source_mode >= 0 /\ source_mode <= 3
         /\ target_mode >= 0 /\ target_mode <= 3
    ELSE IF opcode = 4
    THEN has_source /\ has_target /\ source_mode >= 1 /\ source_mode <= 2
         /\ target_mode >= 1 /\ target_mode <= 3
    ELSE IF opcode >= 5 /\ opcode <= 12
    THEN ~has_source /\ has_target /\ target_mode >= 1 /\ target_mode <= 3
    ELSE IF opcode = 13
    THEN ~has_source /\ has_target /\ target_mode >= 0 /\ target_mode <= 3
    ELSE ~has_source /\ ~has_target

\* Words an operand in the given mode adds to an instruction.
OperandWords(mode) == IF mode = ADDRESSING_MATRIX THEN 2 ELSE 1

BothRegisters(instruction) ==
    /\ instruction.has_source
    /\ instruction.has_target
    /\ instruction.source.mode = ADDRESSING_REGISTER
    /\ instruction.target.mode = ADDRESSING_REGISTER

get_instruction_word_count(instruction) ==
    IF BothRegisters(instruction) THEN 2
    ELSE 1 + (IF instruction.has_source THEN OperandWords(instruction.source.mode) ELSE 0)
           + (IF instruction.has_target THEN OperandWords(instruction.target.mode) ELSE 0)

Instruction(opcode, type, source, target, has_source, has_target) ==
    [opcode |-> opcode, type |-> type, source |-> source, target |-> target,
     word_count |-> 1, has_source |-> has_source, has_target |-> has_target]

NoInstruction == Instruction(-1, INST_INVALID, ZeroOperand, ZeroOperand, FALSE, FALSE)

\* parse_instruction on the text after the label.  ok = FALSE is a FALSE
\* return; every such path sets err_found.
parse_instruction(line) ==
    LET opcode == get_instruction_opcode(line.token)
        type == get_instruction_type(opcode)
        token_count == Len(line.operands)
        failed == [ok |-> FALSE, instruction |-> NoInstruction]
        first == IF token_count >= 1 THEN parse_operand(line.operands[1])
                 ELSE [ok |-> FALSE, operand |-> ZeroOperand]
        second == IF token_count >= 2 THEN parse_operand(line.operands[2])
                  ELSE [ok |-> FALSE, operand |-> ZeroOperand]
        parsed ==
            IF type = INST_NO_OPERANDS
            THEN IF token_count # 0 THEN failed
                 ELSE [ok |-> TRUE,
                       instruction |-> Instruction(opcode, type, ZeroOperand,
                                                   ZeroOperand, FALSE, FALSE)]
            ELSE IF type = INST_ONE_OPERAND
            THEN IF token_count # 1 \/ ~first.ok THEN failed
                 ELSE [ok |-> TRUE,
                       instruction |-> Instruction(opcode, type, ZeroOperand,
                                                   first.operand, FALSE, TRUE)]
            ELSE IF token_count # 2 \/ ~first.ok \/ ~second.ok THEN failed
                 ELSE [ok |-> TRUE,
                       instruction |-> Instruction(opcode, type, first.operand,
                                                   second.operand, TRUE, TRUE)]
        ins == parsed.instruction
    IN IF opcode = -1 \/ type = INST_INVALID \/ token_count > 2 THEN failed
       ELSE IF ~parsed.ok THEN failed
       ELSE IF ~validate_addressing_modes(opcode,
                    IF ins.has_source THEN ins.source.mode ELSE 0,
                    IF ins.has_target THEN ins.target.mode ELSE 0,
                    ins.has_source, ins.has_target)
       THEN failed
       ELSE [ok |-> TRUE,
             instruction |-> [ins EXCEPT !.word_count = get_instruction_word_count(ins)]]

\* ------------------------------------------------------------- first pass
\* The globals the first pass works on, as one record g:
\*   IC, DC, err_found              (first_pass.c)
\*   instruction_table              (its first instruction_count plans)
\*   symbol_table                   (symbol_table.c)
\*   data_image                     (data_image.c, its first size words)

Globals(ic, dc, err, plans, symbols, data) ==
    [IC |-> ic, DC |-> dc, err_found |-> err, instruction_table |-> plans,
     symbol_table |-> symbols, data_image |-> data]

\* print_line_error(...); err_found = TRUE;
ReportError(g) == [g EXCEPT !.err_found = TRUE]

\* store_data: the word is appended unless the image holds
\* MAX_DATA_IMAGE_SIZE words, when expand_data_image reports the overflow.
store_data(g, value) ==
    IF Len(g.data_image) >= MAX_DATA_IMAGE_SIZE
    THEN [ok |-> FALSE, g |-> ReportError(g)]
    ELSE [ok |-> TRUE, g |-> [g EXCEPT !.data_image = Append(@, value)]]

RECURSIVE DataValuesLoop(_, _, _)
\* The strtok loop of parse_data_values from the k-th value on.
DataValuesLoop(g, values, k) ==
    IF k > Len(values) THEN g
    ELSE IF values[k] < -512 \/ values[k] > 511
    THEN DataValuesLoop(ReportError(g), values, k + 1)
    ELSE LET s == store_data(g, values[k])
         IN IF ~s.ok THEN s.g
            ELSE DataValuesLoop([s.g EXCEPT !.DC = @ + 1], values, k + 1)

parse_data_values(g, values) ==
    IF Len(values) = 0 THEN ReportError(g) ELSE DataValuesLoop(g, values, 1)

RECURSIVE StringLoop(_, _, _, _)
\* The character loop of parse_string_value; the result carries
\* has_invalid_char and whether store_data made the function return.
StringLoop(g, chars, k, has_invalid_char) ==
    IF k > Len(chars)
    THEN [g |-> g, has_invalid_char |-> has_invalid_char, returned |-> FALSE]
    ELSE IF chars[k] < 32 \/ chars[k] > 126
    THEN StringLoop(ReportError(g), chars, k + 1, TRUE)
    ELSE IF has_invalid_char THEN StringLoop(g, chars, k + 1, TRUE)
    ELSE LET s == store_data(g, chars[k])
         IN IF ~s.ok
            THEN [g |-> s.g, has_invalid_char |-> FALSE, returned |-> TRUE]
            ELSE StringLoop([s.g EXCEPT !.DC = @ + 1], chars, k + 1, FALSE)

\* parse_string_value on a well-quoted literal whose characters are chars.
parse_string_value(g, chars) ==
    LET r == StringLoop(g, chars, 1, FALSE)
    IN IF r.returned THEN r.g
       ELSE IF ~r.has_invalid_char /\ ~r.g.err_found
       THEN LET s == store_data(r.g, 0)
            IN IF ~s.ok THEN s.g ELSE [s.g EXCEPT !.DC = @ + 1]
       ELSE r.g

RECURSIVE MatrixValuesLoop(_, _, _, _, _)
\* The strtok loop of parse_matrix from the k-th value on.
MatrixValuesLoop(g, values, k, actual_values, exp_vals) ==
    IF k > Len(values)
    THEN [g |-> g, actual_values |-> actual_values, returned |-> FALSE]
    ELSE IF actual_values + 1 > exp_vals
    THEN [g |-> ReportError(g), actual_values |-> actual_values + 1,
          returned |-> FALSE]
    ELSE LET s == store_data(g, values[k])
         IN IF ~s.ok
            THEN [g |-> s.g, actual_values |-> actual_values + 1, returned |-> TRUE]
            ELSE MatrixValuesLoop([s.g EXCEPT !.DC = @ + 1], values, k + 1,
                                  actual_values + 1, exp_vals)

\* The loop "for (i = 0; i < n; i++) { store_data(0); DC++; }" of parse_matrix.
FillZeros(g, n) ==
    LET room == MAX_DATA_IMAGE_SIZE - Len(g.data_image)
        m == IF n <= room THEN n ELSE room
        filled == [g EXCEPT !.data_image = @ \o [k \in 1..m |-> 0],
                            !.DC = @ + m]
    IN IF n <= room THEN filled ELSE ReportError(filled)

parse_matrix(g, rows, cols, values) ==
    IF rows <= 0 \/ cols <= 0 THEN ReportError(g)
    ELSE LET exp_vals == MulWrap(rows, cols)
             r == MatrixValuesLoop(g, values, 1, 0, exp_vals)
         IN IF r.returned THEN r.g
            ELSE IF r.actual_values < exp_vals
            THEN FillZeros(r.g, exp_vals - r.actual_values)
            ELSE r.g

handle_data_directive(g, line) ==
    LET labelled == line.label # ""
        g1 == IF labelled
              THEN [g EXCEPT !.symbol_table =
                        add_symbol(@, line.label, g.DC, SYMBOL_DATA)]
              ELSE g
    IN IF labelled /\ ~is_valid_label(line.label) THEN ReportError(g)
       ELSE IF labelled /\ is_label_defined(g.symbol_table, line.label)
       THEN ReportError(g)
       ELSE IF line.token = ".data" THEN parse_data_values(g1, line.values)
       ELSE IF line.token = ".string" THEN parse_string_value(g1, line.values)
       ELSE IF line.token = ".mat"
       THEN parse_matrix(g1, line.rows, line.cols, line.values)
       ELSE ReportError(g1)

handle_extern_directive(g, line) ==
    IF line.name = "" THEN ReportError(g)
    ELSE IF ~is_valid_label(line.name) THEN ReportError(g)
    ELSE IF is_label_defined(g.symbol_table, line.name) THEN ReportError(g)
    ELSE [g EXCEPT !.symbol_table = add_symbol(@, line.name, 0, SYMBOL_EXTERNAL)]

handle_entry_directive(g, line) ==
    IF line.name = "" THEN ReportError(g)
    ELSE IF ~is_valid_label(line.name) THEN ReportError(g)
    ELSE g

build_first_instruction_word(instruction) ==
    LET w0 == ShiftLeft(instruction.opcode, 6)
        w1 == IF instruction.has_source
              THEN BitOr(w0, ShiftLeft(instruction.source.mode, 4)) ELSE w0
    IN IF instruction.has_target
       THEN BitOr(w1, ShiftLeft(instruction.target.mode, 2)) ELSE w1

\* The conversion of one immediate value in encode_immediate_operands.
ImmediatePattern(value) == (IF value < 0 THEN 1024 + value ELSE value) % 1024

\* encode_immediate_operands: the immediate_word array, source first.
encode_immediate_operands(instruction) ==
    (IF instruction.has_source /\ instruction.source.mode = ADDRESSING_IMMEDIATE
     THEN <<ImmediatePattern(instruction.source.value)>> ELSE <<>>)
    \o
    (IF instruction.has_target /\ instruction.target.mode = ADDRESSING_IMMEDIATE
     THEN <<ImmediatePattern(instruction.target.value)>> ELSE <<>>)

InstructionData(ic_address, word_count, first_word, immediate_word) ==
    [ic_address |-> ic_address, word_count |-> word_count,
     first_word |-> first_word, immediate_word |-> immediate_word,
     immediate_count |-> Len(immediate_word)]

handle_instruction(g, line) ==
    LET labelled == line.label # ""
        g1 == IF labelled
              THEN [g EXCEPT !.symbol_table =
                        add_symbol(@, line.label, g.IC, SYMBOL_CODE)]
              ELSE g
        p == parse_instruction(line)
        inst_data == InstructionData(g.IC, p.instruction.word_count,
                                     build_first_instruction_word(p.instruction),
                                     encode_immediate_operands(p.instruction))
    IN IF labelled /\ is_label_defined(g.symbol_table, line.label)
       THEN ReportError(g)
       ELSE IF ~p.ok THEN ReportError(g1)
       ELSE [g1 EXCEPT
                !.instruction_table =
                    IF Len(@) < MAX_INSTRUCTION_IMAGE_SIZE
                    THEN Append(@, inst_data) ELSE @,
                !.IC = @ + p.instruction.word_count]

\* A first pass that reads on but skips every line after the first error.
process_line_until_error(g, line) ==
    IF g.err_found THEN g
    ELSE IF line.label # "" /\ ~is_valid_label(line.label) THEN ReportError(g)
    ELSE IF line.label # "" /\ is_label_defined(g.symbol_table, line.label)
    THEN ReportError(g)
    ELSE IF get_next_token(line) = "" THEN ReportError(g)
    ELSE IF line.token \in {".data", ".string", ".mat"}
    THEN handle_data_directive(g, line)
    ELSE IF line.token = ".entry"
    THEN IF line.label # "" THEN ReportError(g) ELSE handle_entry_directive(g, line)
    ELSE IF line.token = ".extern"
    THEN IF line.label # "" THEN ReportError(g) ELSE handle_extern_directive(g, line)
    ELSE IF is_instruction(line.token) THEN handle_instruction(g, line)
    ELSE ReportError(g)

process_line(g, line) ==
    IF line.label # "" /\ ~is_valid_label(line.label) THEN ReportError(g)
    ELSE IF line.label # "" /\ is_label_defined(g.symbol_table, line.label)
    THEN ReportError(g)
    ELSE IF get_next_token(line) = "" THEN ReportError(g)
    ELSE IF line.token \in {".data", ".string", ".mat"}
    THEN handle_data_directive(g, line)
    ELSE IF line.token = ".entry"
    THEN IF line.label # "" THEN ReportError(g) ELSE handle_entry_directive(g, line)
    ELSE IF line.token = ".extern"
    THEN IF line.label # "" THEN ReportError(g) ELSE handle_extern_directive(g, line)
    ELSE IF is_instruction(line.token) THEN handle_instruction(g, line)
    ELSE ReportError(g)

\* A first pass that goes on from the counters of the previous run.
first_pass_keep_counters(g) ==
    [g EXCEPT !.err_found = FALSE, !.instruction_table = <<>>]

\* A first pass that reports success whatever it found.
first_pass_ignore_errors(g) == TRUE

\* The initialisation at the top of first_pass on the globals as assemble()
\* left them (symbol table and data image freshly initialised).
first_pass_begin(g) ==
    [g EXCEPT !.IC = BASE_IC_ADDRESS, !.DC = 0, !.err_found = FALSE,
              !.instruction_table = <<>>]

\* The value first_pass returns once the loop is over.
first_pass_return(g) == ~g.err_found

\* The tail of first_pass: on success the data symbols are shifted by ICF.
first_pass_end(g) ==
    IF first_pass_return(g)
    THEN [g EXCEPT !.symbol_table = update_data_symbols(@, g.IC)]
    ELSE g

get_instruction_data(plans, index) ==
    IF index >= 0 /\ index < Len(plans) THEN index + 1 ELSE 0

\* cleanup_first_pass_data
cleanup_first_pass_data(g) == [g EXCEPT !.instruction_table = <<>>]

\* ------------------------------------------------------------ second pass
\* The AssemblyContext of assemble(): the instruction image as the pairs
\* (addresses[i], code[i]) for i < size, and the two linked lists from their
\* heads on.  Its IC and DC fields are written once and never read.

Context(image, entries, externals, icf, dcf, has_errors) ==
    [instruction_image |-> image, entry_list |-> entries,
     external_list |-> externals, ICF |-> icf, DCF |-> dcf,
     has_errors |-> has_errors]

\* The context after init_assembly_context (and before it, when no field
\* is read).
EmptyContext == Context(<<>>, <<>>, <<>>, 0, 0, FALSE)

ImageWord(address, code) == [address |-> address, code |-> code]

ListNode(name, address) == [name |-> name, address |-> address]

\* What the second pass works on, as one record s:
\*   err_found, symbol_table       globals
\*   instruction_index             the static local of
\*                                 handle_instruction_second_pass
\*   current_ic                    the local of second_pass
\*   context                       the AssemblyContext
\*   emitted                       history: the words the handler of the
\*                                 current line stored
\*   appended                      history: the nodes given to
\*                                 add_entry_symbol / add_external_reference,
\*                                 in call order
PassState(err, index, ic, symbols, context, emitted, appended) ==
    [err_found |-> err, instruction_index |-> index, current_ic |-> ic,
     symbol_table |-> symbols, context |-> context, emitted |-> emitted,
     appended |-> appended]

NoneAppended == [entries |-> <<>>, externals |-> <<>>]

\* print_line_error(...); err_found = TRUE; context->has_errors = TRUE;
ReportPassError(s) ==
    [s EXCEPT !.err_found = TRUE, !.context.has_errors = TRUE]

store_instruction_word(image, word, address) ==
    IF address < 0 \/ address > MAX_ADDRESS THEN [ok |-> FALSE, image |-> image]
    ELSE IF Len(image) >= MAX_INSTRUCTION_IMAGE_SIZE
    THEN [ok |-> FALSE, image |-> image]
    ELSE [ok |-> TRUE, image |-> Append(image, ImageWord(address, word))]

\* "if (!store_instruction_word(...)) { report overflow; return FALSE; }"
StoreOrReport(s, word, address) ==
    LET r == store_instruction_word(s.context.instruction_image, word, address)
    IN IF r.ok
       THEN [ok |-> TRUE,
             s |-> [s EXCEPT !.context.instruction_image = r.image,
                             !.emitted = Append(@, ImageWord(address, word))]]
       ELSE [ok |-> FALSE, s |-> ReportPassError(s)]

\* The new node becomes the head of the list.
add_entry_symbol(list, name, address) == <<ListNode(name, address)>> \o list

\* A second pass that drops every external reference.
drop_external_reference(list, name, address) == list

\* The new node becomes the head of the list.
add_external_reference(list, name, address) ==
    <<ListNode(name, address)>> \o list

\* The first word of a Direct or Matrix operand: symbol lookup, the external
\* reference, and the store.
EncodeSymbolWord(s, operand, address) ==
    LET i == get_symbol(s.symbol_table, operand.symbol_name)
        symbol == s.symbol_table[i]
        s1 == [s EXCEPT
                 !.context.external_list =
                     add_external_reference(@, operand.symbol_name, address),
                 !.appended.externals =
                     Append(@, ListNode(operand.symbol_name, address))]
    IN IF i = 0 THEN [ok |-> FALSE, s |-> ReportPassError(s)]
       ELSE IF symbol.is_external THEN StoreOrReport(s1, 1, address)
       ELSE StoreOrReport(s, BitOr(ShiftLeft(symbol.address, 2), 2), address)

encode_operand(s, operand, address, is_source) ==
    IF operand.mode = ADDRESSING_IMMEDIATE
    THEN StoreOrReport(s, ShiftLeft(operand.value, 2), address)
    ELSE IF operand.mode = ADDRESSING_DIRECT
    THEN EncodeSymbolWord(s, operand, address)
    ELSE IF operand.mode = ADDRESSING_MATRIX
    THEN LET r == EncodeSymbolWord(s, operand, address)
         IN IF ~r.ok THEN r
            ELSE StoreOrReport(r.s,
                               BitOr(ShiftLeft(operand.reg1, 6),
                                     ShiftLeft(operand.reg2, 2)),
                               address + 1)
    ELSE IF operand.mode = ADDRESSING_REGISTER
    THEN IF is_source
         THEN StoreOrReport(s, ShiftLeft(operand.value, 6), address)
         ELSE StoreOrReport(s, ShiftLeft(operand.value, 2), address)
    ELSE [ok |-> FALSE, s |-> ReportPassError(s)]

\* The word of the register-pair branch of
\* encode_instruction_with_stored_data.
register_word(instruction) ==
    BitOr(ShiftLeft(instruction.source.value, 6),
          ShiftLeft(instruction.source.value, 2))

\* One operand in encode_instruction_with_stored_data: an immediate operand
\* takes the next stored immediate word as it is, any other operand goes to
\* encode_operand.  The result carries the advanced immediate_index.
EncodeStoredOperand(s, operand, inst_data, immediate_index, address, is_source) ==
    IF operand.mode = ADDRESSING_IMMEDIATE
    THEN IF immediate_index < inst_data.immediate_count
         THEN LET r == StoreOrReport(s, inst_data.immediate_word[immediate_index + 1],
                                     address)
              IN [ok |-> r.ok, s |-> r.s, immediate_index |-> immediate_index + 1]
         ELSE [ok |-> TRUE, s |-> s, immediate_index |-> immediate_index]
    ELSE LET r == encode_operand(s, operand, address, is_source)
         IN [ok |-> r.ok, s |-> r.s, immediate_index |-> immediate_index]

\* encode_instruction_with_stored_data.  The function has no return statement
\* after the target operand, so on that path its value is indeterminate: ub.
encode_instruction_with_stored_data(s, instruction, inst_data, address, ub) ==
    LET r0 == StoreOrReport(s, inst_data.first_word, address)
        a1 == address + 1
        r1 == IF instruction.has_source
              THEN EncodeStoredOperand(r0.s, instruction.source, inst_data, 0, a1, TRUE)
              ELSE [ok |-> TRUE, s |-> r0.s, immediate_index |-> 0]
        a2 == IF instruction.has_source
              THEN a1 + OperandWords(instruction.source.mode) ELSE a1
        r2 == IF instruction.has_target
              THEN EncodeStoredOperand(r1.s, instruction.target, inst_data,
                                       r1.immediate_index, a2, FALSE)
              ELSE [ok |-> TRUE, s |-> r1.s, immediate_index |-> r1.immediate_index]
    IN IF ~r0.ok THEN r0
       ELSE IF BothRegisters(instruction)
       THEN StoreOrReport(r0.s, register_word(instruction), a1)
       ELSE IF ~r1.ok THEN [ok |-> FALSE, s |-> r1.s]
       ELSE IF ~r2.ok THEN [ok |-> FALSE, s |-> r2.s]
       ELSE [ok |-> ub, s |-> r2.s]

handle_instruction_second_pass(s, plans, line, ub) ==
    LET k == get_instruction_data(plans, s.instruction_index)
        inst_data == plans[k]
        p == parse_instruction(line)
        r == encode_instruction_with_stored_data(s, p.instruction, inst_data,
                                                 s.current_ic, ub)
    IN IF k = 0 THEN ReportPassError(s)
       ELSE IF inst_data.ic_address # s.current_ic THEN ReportPassError(s)
       ELSE IF ~p.ok THEN [s EXCEPT !.err_found = TRUE]
       ELSE IF ~r.ok THEN r.s
       ELSE [r.s EXCEPT !.current_ic = @ + inst_data.word_count,
                        !.instruction_index = @ + 1]

\* handle_entry_directive_second_pass is handed the text that starts at the
\* directive itself, so the token it takes for the label is that first token.
handle_entry_directive_second_pass(s, line) ==
    LET label == get_next_token(line)
        i == get_symbol(s.symbol_table, label)
        symbol == s.symbol_table[i]
    IN IF label = "" THEN ReportPassError(s)
       ELSE IF i = 0 THEN ReportPassError(s)
       ELSE IF symbol.is_external THEN ReportPassError(s)
       ELSE [s EXCEPT
               !.symbol_table = mark_symbol_as_entry(@, label),
               !.context.entry_list = add_entry_symbol(@, label, symbol.address),
               !.appended.entries = Append(@, ListNode(label, symbol.address))]

process_line_second_pass(s, plans, line, ub) ==
    LET s0 == [s EXCEPT !.emitted = <<>>]
    IN IF get_next_token(line) = "" THEN s0
       ELSE IF line.token = ".entry" THEN handle_entry_directive_second_pass(s0, line)
       ELSE IF line.token \in {".extern", ".data", ".string", ".mat"} THEN s0
       ELSE IF is_instruction(line.token)
       THEN handle_instruction_second_pass(s0, plans, line, ub)
       ELSE s0

\* The tail of second_pass: the final counters and the error flag.
second_pass_end(s, dc) ==
    [s EXCEPT !.context.ICF = s.current_ic, !.context.DCF = dc,
              !.context.has_errors = s.err_found]

\* The value second_pass returns.
second_pass_return(s) == ~s.err_found

\* ----------------------------------------------------------------- output
\* A file is the sequence of its lines, a line the tuple of its fields; the
\* empty sequence stands for a file that was not written (every written file
\* has at least one line).

NoFiles == [ob |-> <<>>, ent |-> <<>>, ext |-> <<>>]

\* The lines generate_object_file writes: header, instruction image in
\* stored order, data image from address ICF on.
generate_object_file(context, data) ==
    <<<<count_to_base4(context.ICF - BASE_IC_ADDRESS), count_to_base4(Len(data))>>>>
    \o [k \in 1..Len(context.instruction_image) |->
            <<address_to_base4(context.instruction_image[k].address),
              decimal_to_base4(context.instruction_image[k].code)>>]
    \o [k \in 1..Len(data) |->
            <<address_to_base4(context.ICF + (k - 1)), decimal_to_base4(data[k])>>]

\* The lines generate_entries_file writes, walking the list from its head.
generate_entries_file(context) ==
    [k \in 1..Len(context.entry_list) |->
        <<context.entry_list[k].name,
          decimal_to_base4(context.entry_list[k].address)>>]

\* The lines generate_externals_file writes, walking the list from its head.
generate_externals_file(context) ==
    [k \in 1..Len(context.external_list) |->
        <<context.external_list[k].name,
          decimal_to_base4(context.external_list[k].address)>>]

\* Which fopen(..., "w") fails in one call of generate_output_files.
OpenFailures == {"none", "ob", "ent", "ext"}

generate_output_files(context, data, failing) ==
    LET w1 == [NoFiles EXCEPT !.ob = generate_object_file(context, data)]
        w2 == IF context.entry_list # <<>>
              THEN [w1 EXCEPT !.ent = generate_entries_file(context)] ELSE w1
        w3 == IF context.external_list # <<>>
              THEN [w2 EXCEPT !.ext = generate_externals_file(context)] ELSE w2
    IN IF context.has_errors THEN [ok |-> FALSE, written |-> NoFiles]
       ELSE IF failing = "ob" THEN [ok |-> FALSE, written |-> NoFiles]
       ELSE IF context.entry_list # <<>> /\ failing = "ent"
       THEN [ok |-> FALSE, written |-> w1]
       ELSE IF context.external_list # <<>> /\ failing = "ext"
       THEN [ok |-> FALSE, written |-> w2]
       ELSE [ok |-> TRUE, written |-> w3]

\* ------------------------------------------------------------------ inputs

\* A: stop
LineStopA == InstructionLine("A", "stop", <<>>)

\* add r1, r2
LineAddRegisters == InstructionLine("", "add", <<OpReg(1), OpReg(2)>>)

\* prn #-1
LinePrnImmediate == InstructionLine("", "prn", <<OpImm(-1)>>)

\* .extern X
LineExternX == ExternLine("X")

\* jmp X
LineJmpX == InstructionLine("", "jmp", <<OpLabel("X")>>)

\* lea A, X[r1][r2]
LineLeaMatrix == InstructionLine("", "lea", <<OpLabel("A"), OpMat("X", 1, 2)>>)

\* .entry A
LineEntryA == EntryLine("A")

\* B: .data 7, -3
LineDataB == DataLine("B", <<7, -3>>)

\* M: .mat [65536][65536]
LineMatHuge == MatLine("M", 65536, 65536, <<>>)

\* .mat [13][12]
LineMatWide == MatLine("", 13, 12, <<>>)

\* jmp A
LineJmpA == InstructionLine("", "jmp", <<OpLabel("A")>>)

\* .extern A
LineExternA == ExternLine("A")

\* foo
LineUnknown == Line("", "foo", <<>>, "", 0, 0, <<>>)

\* The lines a source of the single-unit specification is made of.
UnitLines ==
    {LineStopA, LineAddRegisters, LinePrnImmediate, LineExternX, LineJmpX,
     LineLeaMatrix, LineEntryA, LineDataB, LineMatHuge, LineMatWide}

\* The lines a source of the batch specification is made of.
BatchLines == {LineStopA, LineJmpA, LineDataB, LineExternA, LineUnknown}

SeqsUpTo(S, n) == UNION {[1..k -> S] : k \in 0..n}

UnitSources == SeqsUpTo(UnitLines, MaxUnitLines)

BatchSources == SeqsUpTo(BatchLines, MaxLines)

\* What preprocess() may return to assemble().
PreprocessResults ==
    {EXIT_SUCCESS_CODE, EXIT_FILE_NOT_FOUND, EXIT_FILE_EMPTY,
     EXIT_MACRO_SYNTAX_ERROR}

\* ------------------------------------------------------------------- state

VARIABLES
    pc,                 \* where the program is: main's loop, a pass, output, ...
    argc, i,            \* main: argument count and loop index
    has_errors,         \* main: some file failed
    result,             \* assemble: its result so far
    exit_code,          \* what main returned ("running" before it returns)
    src,                \* the lines of the current .am file
    line_num,           \* lines the running pass has read
    IC, DC, err_found,  \* globals of first_pass.c
    instruction_table,  \* the stored plans (instruction_count of them)
    symbol_table,       \* the list at symbol_table_head
    data_image,         \* the stored data words
    ICF, DCF,           \* locals of first_pass
    instruction_index,  \* static local of handle_instruction_second_pass
    current_ic,         \* local of second_pass
    context,            \* assemble's AssemblyContext
    written,            \* the files the current assemble call wrote
    emitted,            \* history: words stored for the current line
    appended,           \* history: list nodes in call order
    fp_result,          \* history: what the last first_pass produced
    prev_fp,            \* history: fp_result of the previous run of src
    value, base4_str, decoded,  \* codec: input, its text, the text decoded
    call, ret,          \* a function called on its own: arguments, result
    as_file,            \* preprocess: the lines of the .as file being read
    pp_line,            \* preprocess: lines the running loop has read
    in_macro,           \* preprocess: local in_macro
    current_macro_name, \* preprocess: local current_macro_name
    macro_table,        \* preprocessor.c: the first macro_count macros
    am_opened,          \* preprocess: fopen(am_filename, "w") succeeded
    am_lines            \* the lines written to the .am file

vars ==
    <<pc, argc, i, has_errors, result, exit_code, src, line_num, IC, DC,
      err_found, instruction_table, symbol_table, data_image, ICF, DCF,
      instruction_index, current_ic, context, written, emitted, appended,
      fp_result, prev_fp, value, base4_str, decoded, call, ret, as_file,
      pp_line, in_macro, current_macro_name, macro_table, am_opened, am_lines>>

codec_vars == <<value, base4_str, decoded>>

call_vars == <<call, ret>>

macro_vars ==
    <<as_file, pp_line, in_macro, current_macro_name, macro_table, am_opened,
      am_lines>>

\* No function has been called on its own.
NoCall == [op |-> "none"]

main_vars == <<argc, exit_code>>

G == Globals(IC, DC, err_found, instruction_table, symbol_table, data_image)

S == PassState(err_found, instruction_index, current_ic, symbol_table, context,
               emitted, appended)

SetGlobals(g) ==
    /\ IC' = g.IC
    /\ DC' = g.DC
    /\ err_found' = g.err_found
    /\ instruction_table' = g.instruction_table
    /\ symbol_table' = g.symbol_table
    /\ data_image' = g.data_image

SetPass(s) ==
    /\ err_found' = s.err_found
    /\ instruction_index' = s.instruction_index
    /\ current_ic' = s.current_ic
    /\ symbol_table' = s.symbol_table
    /\ context' = s.context
    /\ emitted' = s.emitted
    /\ appended' = s.appended

FirstPassResult(valid, plans, symbols, errors, ok) ==
    [valid |-> valid, plans |-> plans, symbols |-> symbols, errors |-> errors,
     ok |-> ok]

NoResult == FirstPassResult(FALSE, <<>>, <<>>, FALSE, FALSE)

\* The words of the machine: 10 bits, two's complement.
MinWord == -512

MaxWord == 511

\* The state at program start: the static initialisers of the globals.
InitWith(n, start, w, c) ==
    /\ pc = start
    /\ argc = n
    /\ i = 1
    /\ has_errors = FALSE
    /\ result = EXIT_SUCCESS_CODE
    /\ exit_code = "running"
    /\ src = <<>>
    /\ line_num = 0
    /\ IC = BASE_IC_ADDRESS
    /\ DC = 0
    /\ err_found = FALSE
    /\ instruction_table = <<>>
    /\ symbol_table = <<>>
    /\ data_image = <<>>
    /\ ICF = 0
    /\ DCF = 0
    /\ instruction_index = 0
    /\ current_ic = BASE_IC_ADDRESS
    /\ context = EmptyContext
    /\ written = NoFiles
    /\ emitted = <<>>
    /\ appended = NoneAppended
    /\ fp_result = NoResult
    /\ prev_fp = NoResult
    /\ value = w
    /\ base4_str = <<>>
    /\ decoded = 0
    /\ call = c
    /\ ret = "none"
    /\ as_file = <<>>
    /\ pp_line = 0
    /\ in_macro = FALSE
    /\ current_macro_name = ""
    /\ macro_table = <<>>
    /\ am_opened = FALSE
    /\ am_lines = <<>>

\* ----------------------------------------------------------------- actions

\* main's loop calls assemble(argv[i]) and preprocess fails (or finds the file
\* empty): assemble returns at once, before anything is initialised.
PreprocessFails ==
    /\ pc = "main"
    /\ i < argc
    /\ \E pre \in PreprocessResults \ {EXIT_SUCCESS_CODE} :
          /\ result' = pre
          /\ has_errors' = (has_errors \/ pre # EXIT_FILE_EMPTY)
    /\ i' = i + 1
    /\ written' = NoFiles
    /\ UNCHANGED <<pc, src, line_num, IC, DC, err_found, instruction_table,
                   symbol_table, data_image, ICF, DCF, instruction_index,
                   current_ic, context, emitted, appended, fp_result, prev_fp>>
    /\ UNCHANGED main_vars
    /\ UNCHANGED codec_vars
    /\ UNCHANGED call_vars
    /\ UNCHANGED macro_vars

\* main's loop calls assemble(argv[i]), preprocess succeeds, the symbol table
\* and the data image are initialised, and the .am file cannot be opened.
OpenFails ==
    /\ pc = "main"
    /\ i < argc
    /\ symbol_table' = <<>>
    /\ data_image' = <<>>
    /\ result' = EXIT_FILE_NOT_FOUND
    /\ written' = NoFiles
    /\ pc' = "cleanup"
    /\ UNCHANGED <<has_errors, i, src, line_num, IC, DC, err_found,
                   instruction_table, ICF, DCF, instruction_index, current_ic,
                   context, emitted, appended, fp_result, prev_fp>>
    /\ UNCHANGED main_vars
    /\ UNCHANGED codec_vars
    /\ UNCHANGED call_vars
    /\ UNCHANGED macro_vars

\* main's loop calls assemble(argv[i]); preprocess succeeds, the symbol table
\* and the data image are initialised, the .am file opens and first_pass is
\* entered, which resets its counters.  source is the expanded source; again
\* says that argv[i] names the file of the previous run once more.
BeginAssemble(source, again) ==
    LET g0 == [G EXCEPT !.symbol_table = <<>>, !.data_image = <<>>]
    IN /\ src' = IF again THEN src ELSE source
       /\ prev_fp' = IF again THEN fp_result ELSE NoResult
       /\ fp_result' = NoResult
       /\ SetGlobals(first_pass_begin(g0))
       /\ result' = EXIT_SUCCESS_CODE
       /\ written' = NoFiles
       /\ line_num' = 0
       /\ pc' = "first_pass"
       /\ UNCHANGED <<has_errors, i, ICF, DCF, instruction_index, current_ic,
                      context, emitted, appended>>
       /\ UNCHANGED main_vars
       /\ UNCHANGED codec_vars
       /\ UNCHANGED call_vars
       /\ UNCHANGED macro_vars

\* One file of a batch.
Assemble ==
    /\ pc = "main"
    /\ i < argc
    /\ \E source \in BatchSources,
          again \in (IF fp_result.valid THEN BOOLEAN ELSE {FALSE}) :
             BeginAssemble(source, again)

\* The file of a single-file run.
AssembleUnit ==
    /\ pc = "main"
    /\ i < argc
    /\ \E source \in UnitSources : BeginAssemble(source, FALSE)

\* One iteration of first_pass's loop: process_line on the next line.
FirstPassLine ==
    /\ pc = "first_pass"
    /\ line_num < Len(src)
    /\ line_num' = line_num + 1
    /\ SetGlobals(process_line(G, src[line_num + 1]))
    /\ UNCHANGED <<pc, has_errors, i, result, src, ICF, DCF, instruction_index,
                   current_ic, context, written, emitted, appended, fp_result,
                   prev_fp>>
    /\ UNCHANGED main_vars
    /\ UNCHANGED codec_vars
    /\ UNCHANGED call_vars
    /\ UNCHANGED macro_vars

\* first_pass returns; on success assemble initialises the context and
\* second_pass starts (rewind, current_ic = BASE_IC_ADDRESS).
FirstPassEnd ==
    LET ok == first_pass_return(G)
        g1 == first_pass_end(G)
    IN /\ pc = "first_pass"
       /\ line_num = Len(src)
       /\ SetGlobals(g1)
       /\ ICF' = IF ok THEN IC ELSE ICF
       /\ DCF' = IF ok THEN DC ELSE DCF
       /\ fp_result' = FirstPassResult(TRUE, instruction_table, g1.symbol_table,
                                     err_found, ok)
       /\ result' = IF ok THEN result ELSE EXIT_FIRST_PASS_ERROR
       /\ pc' = IF ok THEN "second_pass" ELSE "cleanup"
       /\ line_num' = 0
       /\ current_ic' = BASE_IC_ADDRESS
       /\ context' = EmptyContext
       /\ UNCHANGED <<has_errors, i, src, instruction_index, written, emitted,
                      appended, prev_fp>>
       /\ UNCHANGED main_vars
       /\ UNCHANGED codec_vars
       /\ UNCHANGED call_vars
       /\ UNCHANGED macro_vars

\* One iteration of second_pass's loop: process_line_second_pass on the next
\* line.
SecondPassLine ==
    /\ pc = "second_pass"
    /\ line_num < Len(src)
    /\ line_num' = line_num + 1
    /\ \E ub \in BOOLEAN :
          SetPass(process_line_second_pass(S, instruction_table,
                                           src[line_num + 1], ub))
    /\ UNCHANGED <<pc, has_errors, i, result, src, IC, DC, instruction_table,
                   data_image, ICF, DCF, written, fp_result, prev_fp>>
    /\ UNCHANGED main_vars
    /\ UNCHANGED codec_vars
    /\ UNCHANGED call_vars
    /\ UNCHANGED macro_vars

\* second_pass returns.
SecondPassEnd ==
    LET s1 == second_pass_end(S, DC)
        ok == second_pass_return(S)
    IN /\ pc = "second_pass"
       /\ line_num = Len(src)
       /\ SetPass(s1)
       /\ result' = IF ok THEN result ELSE EXIT_SECOND_PASS_ERROR
       /\ pc' = IF ok THEN "output" ELSE "cleanup"
       /\ UNCHANGED <<has_errors, i, src, line_num, IC, DC, instruction_table,
                      data_image, ICF, DCF, written, fp_result, prev_fp>>
       /\ UNCHANGED main_vars
       /\ UNCHANGED codec_vars
       /\ UNCHANGED call_vars
       /\ UNCHANGED macro_vars

\* generate_output_files.
GenerateOutput ==
    /\ pc = "output"
    /\ \E failing \in OpenFailures :
          LET r == generate_output_files(context, data_image, failing)
          IN /\ written' = r.written
             /\ result' = IF r.ok THEN result ELSE EXIT_WRITE_ERROR
    /\ pc' = "cleanup"
    /\ UNCHANGED <<has_errors, i, src, line_num, IC, DC, err_found,
                   instruction_table, symbol_table, data_image, ICF, DCF,
                   instruction_index, current_ic, context, emitted, appended,
                   fp_result, prev_fp>>
    /\ UNCHANGED main_vars
    /\ UNCHANGED codec_vars
    /\ UNCHANGED call_vars
    /\ UNCHANGED macro_vars

\* The cleanup section of assemble, its return, and main's bookkeeping.  The
\* locals of the finished calls go back to their initial values.
Cleanup ==
    /\ pc = "cleanup"
    /\ context' = EmptyContext
    /\ symbol_table' = <<>>
    /\ data_image' = <<>>
    /\ instruction_table' = cleanup_first_pass_data(G).instruction_table
    /\ has_errors' = (has_errors \/ result \notin {EXIT_SUCCESS_CODE, EXIT_FILE_EMPTY})
    /\ i' = i + 1
    /\ pc' = "main"
    /\ line_num' = 0
    /\ current_ic' = BASE_IC_ADDRESS
    /\ ICF' = 0
    /\ DCF' = 0
    /\ emitted' = <<>>
    /\ appended' = NoneAppended
    /\ UNCHANGED <<result, src, IC, DC, err_found, instruction_index, written,
                   fp_result, prev_fp>>
    /\ UNCHANGED main_vars
    /\ UNCHANGED codec_vars
    /\ UNCHANGED call_vars
    /\ UNCHANGED macro_vars

\* A main that reports success whatever the files came to.
main_return_success(n, errors) == EXIT_SUCCESS_CODE

\* The value main returns: the usage error, or after the last file.
main_return(n, errors) ==
    IF n < MIN_ARGC THEN EXIT_GENERAL_ERROR
    ELSE IF errors THEN EXIT_GENERAL_ERROR
    ELSE EXIT_SUCCESS_CODE

\* main returns: the usage error, or after the last file.
MainReturn ==
    /\ pc = "main"
    /\ argc < MIN_ARGC \/ i >= argc
    /\ exit_code' = main_return(argc, has_errors)
    /\ pc' = "exit"
    /\ UNCHANGED <<argc, i, has_errors, result, src, line_num, IC, DC, err_found,
                   instruction_table, symbol_table, data_image, ICF, DCF,
                   instruction_index, current_ic, context, written, emitted,
                   appended, fp_result, prev_fp>>
    /\ UNCHANGED codec_vars
    /\ UNCHANGED call_vars
    /\ UNCHANGED macro_vars

\* ------------------------------------------------------------------- codec

\* decimal_to_base4(value, output)
Encode ==
    /\ pc = "encode"
    /\ base4_str' = decimal_to_base4(value)
    /\ pc' = "decode"
    /\ UNCHANGED <<argc, i, has_errors, result, exit_code, src, line_num, IC,
                   DC, err_found, instruction_table, symbol_table, data_image,
                   ICF, DCF, instruction_index, current_ic, context, written,
                   emitted, appended, fp_result, prev_fp, value, decoded>>
    /\ UNCHANGED call_vars
    /\ UNCHANGED macro_vars

\* base4_to_decimal(base4_str)
Decode ==
    /\ pc = "decode"
    /\ \E uninit \in UninitValues : decoded' = base4_to_decimal(base4_str, uninit)
    /\ pc' = "decoded"
    /\ UNCHANGED <<argc, i, has_errors, result, exit_code, src, line_num, IC,
                   DC, err_found, instruction_table, symbol_table, data_image,
                   ICF, DCF, instruction_index, current_ic, context, written,
                   emitted, appended, fp_result, prev_fp, value, base4_str>>
    /\ UNCHANGED call_vars
    /\ UNCHANGED macro_vars

\* ---------------------------------------------------------- specifications

\* A batch: the program run on up to MaxUnits files.
Init == \E n \in 1..(MaxUnits + 1) : InitWith(n, "main", 0, NoCall)

Next ==
    \/ PreprocessFails
    \/ OpenFails
    \/ Assemble
    \/ FirstPassLine
    \/ FirstPassEnd
    \/ SecondPassLine
    \/ SecondPassEnd
    \/ GenerateOutput
    \/ Cleanup
    \/ MainReturn

Spec == Init /\ [][Next]_vars

\* A single unit: the program run on one file.
InitUnit == InitWith(MIN_ARGC, "main", 0, NoCall)

NextUnit ==
    \/ PreprocessFails
    \/ OpenFails
    \/ AssembleUnit
    \/ FirstPassLine
    \/ FirstPassEnd
    \/ SecondPassLine
    \/ SecondPassEnd
    \/ GenerateOutput
    \/ Cleanup
    \/ MainReturn

SpecUnit == InitUnit /\ [][NextUnit]_vars

\* The codec alone: one word encoded, then decoded.
InitCodec == \E w \in MinWord..MaxWord : InitWith(1, "encode", w, NoCall)

NextCodec == Encode \/ Decode

SpecCodec == InitCodec /\ [][NextCodec]_vars

\* ------------------------------------------------------------- properties

\* C1. Codec round trip: for every w in -512..511 the text of w decodes to w,
\* and the text is exactly five characters, each one of a, b, c, d.
CodecRoundTrip ==
    pc = "decoded" =>
        /\ decoded = value
        /\ Len(base4_str) = 5
        /\ \A k \in 1..Len(base4_str) : base4_str[k] \in {"a", "b", "c", "d"}

\* C2. Register-pair sharing: for a two-operand instruction with source
\* register rS and target register rT the second pass emits exactly one word
\* after the first word, and it is (S << 6) | (T << 2), ARE bits 00.
RegisterPairSharing ==
    (/\ pc = "second_pass"
     /\ line_num > 0
     /\ ~err_found
     /\ is_instruction(src[line_num].token)
     /\ BothRegisters(parse_instruction(src[line_num]).instruction))
    => LET instruction == parse_instruction(src[line_num]).instruction
       IN /\ Len(emitted) = 2
          /\ emitted[2].code = instruction.source.value * 64
                               + instruction.target.value * 4

\* C3. Immediate operand encoding: the word the second pass emits for an
\* Immediate operand of value n is the 10-bit two's-complement pattern of n
\* shifted left by 2 bits, ARE bits (bits 0-1) 00.
ImmediateOperandEncoding ==
    (/\ pc = "second_pass"
     /\ line_num > 0
     /\ ~err_found
     /\ is_instruction(src[line_num].token))
    => LET instruction == parse_instruction(src[line_num]).instruction
           at_source == 2
           at_target == IF instruction.has_source
                        THEN 2 + OperandWords(instruction.source.mode) ELSE 2
           Shifted(k, n) ==
               /\ Len(emitted) >= k
               /\ emitted[k].code = (n % 1024) * 4
               /\ emitted[k].code % 4 = 0
       IN /\ (instruction.has_source
              /\ instruction.source.mode = ADDRESSING_IMMEDIATE)
             => Shifted(at_source, instruction.source.value)
          /\ (instruction.has_target
              /\ instruction.target.mode = ADDRESSING_IMMEDIATE)
             => Shifted(at_target, instruction.target.value)

\* The operands (line, side) of the instructions of source that are Direct
\* operands or Matrix base labels naming an External symbol of symbols.
ExternalOperands(source, symbols) ==
    LET External(operand) ==
            /\ operand.mode \in {ADDRESSING_DIRECT, ADDRESSING_MATRIX}
            /\ get_symbol(symbols, operand.symbol_name) # 0
            /\ symbols[get_symbol(symbols, operand.symbol_name)].is_external
    IN {x \in (1..Len(source)) \X {"source", "target"} :
           /\ is_instruction(source[x[1]].token)
           /\ LET p == parse_instruction(source[x[1]])
              IN /\ p.ok
                 /\ IF x[2] = "source"
                    THEN p.instruction.has_source /\ External(p.instruction.source)
                    ELSE p.instruction.has_target /\ External(p.instruction.target)}

\* The external-reference list has one entry per external operand of src, and
\* each entry's address holds the word 0x01 in the instruction image.
ExternalListFaithful ==
    /\ Len(context.external_list) = Cardinality(ExternalOperands(src, symbol_table))
    /\ \A k \in 1..Len(context.external_list) :
          \E j \in 1..Len(context.instruction_image) :
             context.instruction_image[j] =
                 ImageWord(context.external_list[k].address, 1)

ListOrder ==
    LET LinesOf(nodes) ==
            [k \in 1..Len(nodes) |->
                <<nodes[k].name, decimal_to_base4(nodes[k].address)>>]
    IN (pc \in {"second_pass", "output", "cleanup"}) =>
          /\ context.entry_list = appended.entries
          /\ context.external_list = appended.externals
          /\ written.ent # <<>> => written.ent = LinesOf(appended.entries)
          /\ written.ext # <<>> => written.ext = LinesOf(appended.externals)

\* C6. No artifacts on error: if the first pass or the second pass of a unit
\* records an error, none of the object, entries and externals artifacts is
\* written for that unit; after a first-pass error the second pass is never
\* started (it stores no word, appends no node, and leaves the context as it
\* was).
NoArtifactsOnError ==
    /\ err_found => written = NoFiles
    /\ (fp_result.valid /\ fp_result.errors) =>
          /\ pc \in {"cleanup", "main", "exit"}
          /\ written = NoFiles
          /\ emitted = <<>>
          /\ appended = NoneAppended
          /\ context = EmptyContext

\* A unit's second pass has recorded an error and assemble is about to
\* return, nothing written.
NoArtifactsOnErrorWitness ==
    /\ pc = "cleanup"
    /\ result = EXIT_SECOND_PASS_ERROR
    /\ err_found
    /\ context.instruction_image # <<>>

\* C7. Address layout: after a first pass that returns success every
\* Code-kind symbol has address a with 100 <= a < ICF and every Data-kind
\* symbol (after the shift by ICF) has ICF <= a < ICF + DCF.
AddressLayout ==
    (pc = "second_pass") =>
        \A k \in 1..Len(symbol_table) :
            /\ symbol_table[k].type = SYMBOL_CODE =>
                  /\ BASE_IC_ADDRESS <= symbol_table[k].address
                  /\ symbol_table[k].address < ICF
            /\ symbol_table[k].type = SYMBOL_DATA =>
                  /\ ICF <= symbol_table[k].address
                  /\ symbol_table[k].address < ICF + DCF

\* C8. Memory bound: every first pass that returns success has
\* ICF + DCF <= 256.
MemoryBound == (pc = "second_pass") => ICF + DCF <= 256

\* C9. Plan determinism: first_pass run twice on the same expanded source,
\* each time from an empty symbol table and an empty data image, yields the
\* same plans, the same symbol table and the same success/failure result.
PlanDeterminism == (fp_result.valid /\ prev_fp.valid) => fp_result = prev_fp

\* The first pass has run a second time on a source with an instruction and
\* a symbol, after a second pass in between.
PlanDeterminismWitness ==
    /\ fp_result.valid
    /\ prev_fp.valid
    /\ fp_result.plans # <<>>
    /\ fp_result.symbols # <<>>
    /\ instruction_index > 0

RECURSIVE FirstPassLines(_, _, _)
\* The loop of first_pass from the k-th line of source on.
FirstPassLines(g, source, k) ==
    IF k > Len(source) THEN g
    ELSE FirstPassLines(process_line(g, source[k]), source, k + 1)

RECURSIVE SecondPassLines(_, _, _, _, _)
\* The loop of second_pass from the k-th line of source on; ubs[k] is the
\* indeterminate return value met on line k.
SecondPassLines(s, plans, source, k, ubs) ==
    IF k > Len(source) THEN s
    ELSE SecondPassLines(process_line_second_pass(s, plans, source[k], ubs[k]),
                         plans, source, k + 1, ubs)

\* What assembling source alone (a fresh process, one file) can give: whether
\* both passes succeeded, and the instruction image.
AssembledAlone(source) ==
    LET g1 == FirstPassLines(
                  first_pass_begin(Globals(BASE_IC_ADDRESS, 0, FALSE, <<>>,
                                           <<>>, <<>>)),
                  source, 1)
        g2 == first_pass_end(g1)
        s0 == PassState(g2.err_found, 0, BASE_IC_ADDRESS, g2.symbol_table,
                        EmptyContext, <<>>, NoneAppended)
    IN IF ~first_pass_return(g1) THEN {[ok |-> FALSE, image |-> <<>>]}
       ELSE {LET s == SecondPassLines(s0, g2.instruction_table, source, 1, ubs)
             IN [ok |-> second_pass_return(s),
                 image |-> s.context.instruction_image] :
               ubs \in [1..Len(source) -> BOOLEAN]}

\* C10. Unit independence: the result of assembling a unit in a batch
\* (success or failure, and its instruction image) is a result of assembling
\* it alone, and its second pass takes its plans from the first plan of its
\* own first pass on.
UnitIndependence ==
    /\ (pc = "second_pass" /\ line_num = 0) => instruction_index = 0
    /\ (pc = "cleanup" /\ result = EXIT_FIRST_PASS_ERROR) =>
          [ok |-> FALSE, image |-> <<>>] \in AssembledAlone(src)
    /\ (\/ pc = "output"
        \/ pc = "cleanup" /\ result = EXIT_SECOND_PASS_ERROR) =>
          [ok |-> ~err_found, image |-> context.instruction_image]
              \in AssembledAlone(src)

\* ------------------------------------------------ validate_addressing_modes

\* The calls validate_addressing_modes(opcode, source_mode, target_mode,
\* has_source, has_target) with an opcode of the instruction set.
ModeCalls ==
    [op : {"validate_addressing_modes"}, opcode : 0..15,
     source_mode : ADDRESSING_IMMEDIATE..ADDRESSING_REGISTER,
     target_mode : ADDRESSING_IMMEDIATE..ADDRESSING_REGISTER,
     has_source : BOOLEAN, has_target : BOOLEAN]

InitModes == \E c \in ModeCalls : InitWith(1, "validate", 0, c)

Validate ==
    /\ pc = "validate"
    /\ ret' = validate_addressing_modes(call.opcode, call.source_mode,
                                        call.target_mode, call.has_source,
                                        call.has_target)
    /\ pc' = "validated"
    /\ UNCHANGED <<argc, i, has_errors, result, exit_code, src, line_num, IC,
                   DC, err_found, instruction_table, symbol_table, data_image,
                   ICF, DCF, instruction_index, current_ic, context, written,
                   emitted, appended, fp_result, prev_fp, call>>
    /\ UNCHANGED codec_vars
    /\ UNCHANGED macro_vars

NextModes == Validate

SpecModes == InitModes /\ [][NextModes]_vars

\* C16. Mode table: validate_addressing_modes accepts exactly: mov, add, sub
\* with source {0,1,2,3} and target {1,2,3}; cmp with source and target
\* {0,1,2,3}; lea with source {1,2} and target {1,2,3}; opcodes 5..12 with no
\* source and target {1,2,3}; prn with no source and target {0,1,2,3}; rts
\* and stop with no operand.
ModeTable ==
    LET Two(sources, targets) ==
            /\ call.has_source
            /\ call.has_target
            /\ call.source_mode \in sources
            /\ call.target_mode \in targets
        One(targets) ==
            /\ ~call.has_source
            /\ call.has_target
            /\ call.target_mode \in targets
        None == ~call.has_source /\ ~call.has_target
        accepted ==
            CASE call.opcode \in {0, 2, 3} -> Two({0, 1, 2, 3}, {1, 2, 3})
              [] call.opcode = 1 -> Two({0, 1, 2, 3}, {0, 1, 2, 3})
              [] call.opcode = 4 -> Two({1, 2}, {1, 2, 3})
              [] call.opcode \in 5..12 -> One({1, 2, 3})
              [] call.opcode = 13 -> One({0, 1, 2, 3})
              [] call.opcode \in {14, 15} -> None
    IN pc = "validated" => ret = accepted

\* lea with an immediate source has been refused.
ModeTableWitness ==
    /\ pc = "validated"
    /\ call.opcode = 4
    /\ call.has_source
    /\ call.has_target
    /\ call.source_mode = ADDRESSING_IMMEDIATE
    /\ call.target_mode = ADDRESSING_DIRECT
    /\ ret = FALSE

\* C15. Matrix directive layout: a valid .mat [R][C] v0,...,vk with R > 0,
\* C > 0 and k+1 <= R*C appends R, then C, then v0..vk, then R*C-(k+1) zeros
\* to the data image, and DC advances by R*C + 2.
MatrixDirectiveLayout ==
    (/\ pc = "first_pass"
     /\ line_num > 0
     /\ ~err_found
     /\ src[line_num].token = ".mat"
     /\ src[line_num].rows \in 1..MAX_DATA_IMAGE_SIZE
     /\ src[line_num].cols \in 1..MAX_DATA_IMAGE_SIZE
     /\ Len(src[line_num].values) <= src[line_num].rows * src[line_num].cols)
    => LET line == src[line_num]
           before ==
               FirstPassLines(
                   first_pass_begin(Globals(BASE_IC_ADDRESS, 0, FALSE, <<>>,
                                            <<>>, <<>>)),
                   SubSeq(src, 1, line_num - 1), 1)
           cells == line.rows * line.cols
       IN /\ data_image =
                 before.data_image \o <<line.rows, line.cols>> \o line.values
                 \o [k \in 1..(cells - Len(line.values)) |-> 0]
          /\ DC = before.DC + cells + 2

\* ------------------------------------------- symbol-table specification
\* The symbol table driven through its interface, as tests/test_symbol_table.c
\* drives it: any sequence of add_symbol, mark_symbol_as_entry and
\* update_data_symbols calls. call holds the last call, the table it found
\* and the number of calls so far; ret holds the value it returned.

\* A name of MAX_SYMBOL_NAME_LENGTH characters, one more than a symbol
\* stores.
LongName == "L2345678901234567890123456789012"

SymbolNames == {"A", "B", LongName}

SymbolAddresses == {0, BASE_IC_ADDRESS}

SymbolIcfs == {BASE_IC_ADDRESS}

SymbolCall(op, name, address, type, icf, before, n) ==
    [op |-> op, name |-> name, address |-> address, type |-> type,
     icf |-> icf, before |-> before, n |-> n]

InitSymbols ==
    InitWith(1, "symbols", 0, SymbolCall("none", "", 0, SYMBOL_CODE, 0, <<>>, 0))

SymbolFrame ==
    /\ UNCHANGED <<pc, argc, i, has_errors, result, exit_code, src, line_num,
                   IC, DC, err_found, instruction_table, data_image, ICF, DCF,
                   instruction_index, current_ic, context, written, emitted,
                   appended, fp_result, prev_fp>>
    /\ UNCHANGED codec_vars
    /\ UNCHANGED macro_vars

AddSymbol ==
    /\ pc = "symbols"
    /\ call.n < MaxCalls
    /\ \E name \in SymbolNames, type \in {SYMBOL_CODE, SYMBOL_DATA, SYMBOL_EXTERNAL} :
          \E address \in IF type = SYMBOL_EXTERNAL THEN {0} ELSE SymbolAddresses :
             /\ symbol_table' = add_symbol(symbol_table, name, address, type)
             /\ ret' = add_symbol_return(symbol_table, name)
             /\ call' = SymbolCall("add_symbol", name, address, type, 0,
                                   symbol_table, call.n + 1)
    /\ SymbolFrame

MarkEntry ==
    /\ pc = "symbols"
    /\ call.n < MaxCalls
    /\ \E name \in SymbolNames :
          /\ symbol_table' = mark_symbol_as_entry(symbol_table, name)
          /\ ret' = mark_symbol_as_entry_return(symbol_table, name)
          /\ call' = SymbolCall("mark_symbol_as_entry", name, 0, SYMBOL_CODE, 0,
                                symbol_table, call.n + 1)
    /\ SymbolFrame

UpdateDataSymbols ==
    /\ pc = "symbols"
    /\ call.n < MaxCalls
    /\ \E icf \in SymbolIcfs :
          /\ symbol_table' = update_data_symbols(symbol_table, icf)
          /\ ret' = "void"
          /\ call' = SymbolCall("update_data_symbols", "", 0, SYMBOL_CODE, icf,
                                symbol_table, call.n + 1)
    /\ SymbolFrame

NextSymbols == AddSymbol \/ MarkEntry \/ UpdateDataSymbols

SpecSymbols == InitSymbols /\ [][NextSymbols]_vars

EntryExternalExclusion ==
    /\ \A k \in 1..Len(symbol_table) :
          ~(symbol_table[k].is_external /\ symbol_table[k].is_entry)
    /\ \A k \in 1..Len(call.before) :
          (/\ call.op = "mark_symbol_as_entry"
           /\ k = find_symbol(call.before, call.name)
           /\ call.before[k].type = SYMBOL_EXTERNAL)
          => (ret = FALSE /\ ~symbol_table[k].is_entry)

\* C19. Data shift frame: update_data_symbols(icf) adds icf to the address of
\* every Data symbol and leaves the address of every Code and External symbol,
\* and every symbol's name, type and flags, unchanged; an External symbol at
\* address 0 stays at address 0.
DataShiftFrame ==
    call.op = "update_data_symbols" =>
       /\ Len(symbol_table) = Len(call.before)
       /\ \A k \in 1..Len(call.before) :
             LET old == call.before[k]
                 new == symbol_table[k]
             IN /\ new.name = old.name
                /\ new.type = old.type
                /\ new.is_entry = old.is_entry
                /\ new.is_external = old.is_external
                /\ new.address = IF old.type = SYMBOL_DATA
                                 THEN old.address + call.icf
                                 ELSE old.address
                /\ (old.type = SYMBOL_EXTERNAL /\ old.address = 0)
                   => new.address = 0

\* A shift has just run over a table that holds a Data symbol and an External
\* symbol.
DataShiftFrameWitness ==
    /\ call.op = "update_data_symbols"
    /\ call.icf > 0
    /\ \E k \in 1..Len(call.before) : call.before[k].type = SYMBOL_DATA
    /\ \E k \in 1..Len(call.before) : call.before[k].type = SYMBOL_EXTERNAL

\* C20. Entry resolution: after the second pass has processed a line
\* .entry NAME, if NAME is not in the symbol table or is External an error is
\* recorded and no node named NAME is in the entry list; otherwise the
\* symbol's is_entry flag is set and the node (NAME, a) has been appended,
\* where a is the symbol's final address.
EntryResolution ==
    (pc = "second_pass" /\ line_num > 0 /\ src[line_num].token = ".entry") =>
       LET name == src[line_num].name
           k == find_symbol(symbol_table, name)
       IN IF k = 0 \/ symbol_table[k].is_external
          THEN /\ err_found
               /\ \A n \in 1..Len(context.entry_list) :
                     context.entry_list[n].name # name
          ELSE /\ symbol_table[k].is_entry
               /\ context.entry_list # <<>>
               /\ Head(context.entry_list) = ListNode(name, symbol_table[k].address)

\* ------------------------------------------------------------ preprocessor
\* A line of a .as file is whether it starts with white space, and its
\* words: the maximal runs of characters that are not white space. Every
\* line ends with a newline. A comment starts at a word that starts with ';'.

RawLine(indent, words) == [indent |-> indent, words |-> words]

\* At most n characters of a word, as a bounded copy takes them.
Cut(word, n) == IF Len(word) > n THEN SubSeq(word, 1, n) ELSE word

\* strspn(line, " \t\r\n") == strlen(line)
is_blank_line(line) == line.words = <<>>

get_first_word(line) ==
    IF line.words = <<>> THEN ""
    ELSE Cut(line.words[1], MAX_MACRO_NAME_LENGTH - 1)

is_comment_word(word) == Len(word) > 0 /\ SubSeq(word, 1, 1) = ";"

\* The words left by remove_comments.
remove_comments(words) ==
    LET marks == {k \in 1..Len(words) : is_comment_word(words[k])}
    IN IF marks = {} THEN words
       ELSE SubSeq(words, 1, (CHOOSE k \in marks : \A j \in marks : k <= j) - 1)

\* The loop that looks for a line with content.
file_has_content(file) ==
    \E k \in 1..Len(file) :
       /\ ~is_blank_line(file[k])
       /\ get_first_word(file[k]) # ""
       /\ ~is_comment_word(get_first_word(file[k]))

\* sscanf(line, "mcro %31s", name): the number of conversions (EOF is -1)
\* and the name read. The literal mcro has to be at the very start of the
\* line.
scan_macro_name(line) ==
    IF line.indent \/ line.words = <<>> \/ line.words[1] # "mcro"
    THEN [count |-> 0, name |-> ""]
    ELSE IF Len(line.words) < 2 THEN [count |-> -1, name |-> ""]
    ELSE [count |-> 1, name |-> Cut(line.words[2], MAX_MACRO_NAME_LENGTH - 1)]

\* sscanf(temp_line, "mcro %31s %s", ...) == 2 after remove_comments: there
\* is text after the (at most 31 character) name.
has_extra_text(line) ==
    LET words == remove_comments(line.words)
    IN /\ ~line.indent
       /\ Len(words) >= 2
       /\ words[1] = "mcro"
       /\ Len(words) >= 3 \/ Len(words[2]) > MAX_MACRO_NAME_LENGTH - 1

Macro(name, lines) == [name |-> name, lines |-> lines]

\* The index of the first macro with the name; 0 stands for -1.
find_macro(table, name) ==
    LET hits == {k \in 1..Len(table) : table[k].name = name}
    IN IF hits = {} THEN 0 ELSE CHOOSE k \in hits : \A j \in hits : k <= j

add_macro(table, name) ==
    IF Len(table) >= MAX_MACROS \/ find_macro(table, name) # 0
    THEN [ok |-> FALSE, table |-> table]
    ELSE [ok |-> TRUE, table |-> Append(table, Macro(name, <<>>))]

add_line_to_macro(table, name, line) ==
    LET k == find_macro(table, name)
    IN IF k = 0 THEN [ok |-> FALSE, table |-> table]
       ELSE IF Len(table[k].lines) >= MAX_MACRO_LINES
       THEN [ok |-> FALSE, table |-> table]
       ELSE [ok |-> TRUE, table |-> [table EXCEPT ![k].lines = Append(@, line)]]

\* "while (*ptr && isspace(*ptr)) ptr++;"
skip_leading_space(line) == [line EXCEPT !.indent = FALSE]

\* The lines write_macro_body writes.
write_macro_body(table, name) ==
    LET k == find_macro(table, name)
    IN IF k = 0 THEN <<>>
       ELSE [j \in 1..Len(table[k].lines) |-> skip_leading_space(table[k].lines[j])]

\* The table after free_macro_table: macro_count = 0.
free_macro_table == <<>>

\* What the loops of preprocess work on, as one record m:
\*   in_macro, current_macro_name   locals
\*   macro_table                    the static table
\*   am_lines                       the lines written so far
\*   result                         "continue", or the code preprocess returns
MacroState(in, name, table, lines, res) ==
    [in_macro |-> in, current_macro_name |-> name, macro_table |-> table,
     am_lines |-> lines, result |-> res]

\* One turn of the loop of the preliminary pass.
preliminary_line(m, line) ==
    LET first_word == get_first_word(line)
        scanned == scan_macro_name(line)
        named == [m EXCEPT !.current_macro_name = scanned.name]
        added == add_macro(m.macro_table, scanned.name)
        stored == add_line_to_macro(m.macro_table, m.current_macro_name, line)
    IN IF is_blank_line(line) THEN m
       ELSE IF first_word = ".entry" \/ first_word = ".extern" THEN m
       ELSE IF ~m.in_macro /\ first_word = "mcro"
       THEN IF scanned.count # 1
            THEN [m EXCEPT !.result = EXIT_MACRO_SYNTAX_ERROR]
            ELSE IF is_reserved_word(scanned.name)
            THEN [named EXCEPT !.result = EXIT_MACRO_RESERVED_WORD]
            ELSE IF has_extra_text(line)
            THEN [named EXCEPT !.result = EXIT_MACRO_EXTRA_TEXT]
            ELSE IF ~added.ok
            THEN [named EXCEPT !.macro_table = free_macro_table,
                               !.result = EXIT_MACRO_SYNTAX_ERROR]
            ELSE [named EXCEPT !.macro_table = added.table, !.in_macro = TRUE]
       ELSE IF m.in_macro
       THEN IF first_word = "mcroend" THEN [m EXCEPT !.in_macro = FALSE]
            ELSE IF ~stored.ok
            THEN [m EXCEPT !.macro_table = free_macro_table,
                           !.result = EXIT_MACRO_SYNTAX_ERROR]
            ELSE [m EXCEPT !.macro_table = stored.table]
       ELSE m

\* A preliminary pass that does not look for a missing mcroend.
preliminary_end_unchecked(in) == "continue"

\* The check after the loop of the preliminary pass.
preliminary_end(in) == IF in THEN EXIT_MACRO_MISSING_END ELSE "continue"

\* One turn of the loop of the write pass.
write_line(m, line) ==
    LET first_word == get_first_word(line)
        scanned == scan_macro_name(line)
    IN IF is_blank_line(line) THEN m
       ELSE IF first_word = ".entry" \/ first_word = ".extern"
       THEN [m EXCEPT !.am_lines = Append(@, line)]
       ELSE IF ~m.in_macro /\ first_word = "mcro"
       THEN [m EXCEPT !.in_macro = TRUE,
                      !.current_macro_name =
                          IF scanned.count = 1 THEN scanned.name ELSE @]
       ELSE IF m.in_macro
       THEN IF first_word = "mcroend" THEN [m EXCEPT !.in_macro = FALSE] ELSE m
       ELSE IF find_macro(m.macro_table, first_word) # 0
       THEN [m EXCEPT !.am_lines = @ \o write_macro_body(m.macro_table, first_word)]
       ELSE [m EXCEPT !.am_lines = Append(@, skip_leading_space(line))]

\* "mcro m"
LineMcroM == RawLine(FALSE, <<"mcro", "m">>)

\* "mcroend"
LineMcroend == RawLine(FALSE, <<"mcroend">>)

\* "mcro mov"
LineMcroReserved == RawLine(FALSE, <<"mcro", "mov">>)

\* "mcro m x"
LineMcroExtra == RawLine(FALSE, <<"mcro", "m", "x">>)

\* "m"
LineCallM == RawLine(FALSE, <<"m">>)

\* "  stop"
LineIndentedStop == RawLine(TRUE, <<"stop">>)

\* "  .extern X"
LineIndentedExtern == RawLine(TRUE, <<".extern", "X">>)

\* ""
LineBlank == RawLine(FALSE, <<>>)

MacroLines ==
    {LineMcroM, LineMcroend, LineMcroReserved, LineMcroExtra, LineCallM,
     LineIndentedStop, LineIndentedExtern, LineBlank}

MacroSources == SeqsUpTo(MacroLines, MaxSourceLines)

M == MacroState(in_macro, current_macro_name, macro_table, am_lines, "continue")

SetMacro(m) ==
    /\ in_macro' = m.in_macro
    /\ current_macro_name' = m.current_macro_name
    /\ macro_table' = m.macro_table
    /\ am_lines' = m.am_lines

\* What the preprocessor leaves alone.
MacroFrame ==
    /\ UNCHANGED <<argc, exit_code, src, line_num, IC, DC, err_found,
                   instruction_table, symbol_table, data_image, ICF, DCF,
                   instruction_index, current_ic, context, written, emitted,
                   appended, fp_result, prev_fp>>
    /\ UNCHANGED codec_vars
    /\ UNCHANGED call_vars

\* main's loop calls assemble(argv[i]), which calls preprocess: the .as file
\* cannot be opened.
PreprocessNoFile ==
    /\ pc = "main"
    /\ i < argc
    /\ result' = EXIT_FILE_NOT_FOUND
    /\ pc' = "preprocessed"
    /\ UNCHANGED <<i, has_errors>>
    /\ UNCHANGED macro_vars
    /\ MacroFrame

\* preprocess opens the .as file and looks for a line with content.
PreprocessBegin ==
    /\ pc = "main"
    /\ i < argc
    /\ \E file \in MacroSources :
          /\ as_file' = file
          /\ IF file_has_content(file)
             THEN /\ pc' = "preliminary"
                  /\ result' = EXIT_SUCCESS_CODE
             ELSE /\ pc' = "preprocessed"
                  /\ result' = EXIT_FILE_EMPTY
    /\ pp_line' = 0
    /\ in_macro' = FALSE
    /\ UNCHANGED <<i, has_errors, current_macro_name, macro_table, am_opened,
                   am_lines>>
    /\ MacroFrame

\* The preliminary pass reads a line.
PreliminaryLine ==
    LET m == preliminary_line(M, as_file[pp_line + 1])
    IN /\ pc = "preliminary"
       /\ pp_line < Len(as_file)
       /\ pp_line' = pp_line + 1
       /\ SetMacro(m)
       /\ IF m.result = "continue"
          THEN UNCHANGED <<pc, result>>
          ELSE /\ pc' = "preprocessed"
               /\ result' = m.result
       /\ UNCHANGED <<i, has_errors, as_file, am_opened>>
       /\ MacroFrame

\* The preliminary pass is at the end of the file.
PreliminaryEnd ==
    LET end == preliminary_end(in_macro)
    IN /\ pc = "preliminary"
       /\ pp_line = Len(as_file)
       /\ IF end = "continue"
          THEN /\ pc' = "open"
               /\ UNCHANGED <<result, macro_table>>
          ELSE /\ pc' = "preprocessed"
               /\ result' = end
               /\ macro_table' = free_macro_table
       /\ UNCHANGED <<i, has_errors, as_file, pp_line, in_macro,
                      current_macro_name, am_opened, am_lines>>
       /\ MacroFrame

\* rewind and fopen(am_filename, "w"), which succeeds.
OpenOutput ==
    /\ pc = "open"
    /\ am_opened' = TRUE
    /\ pp_line' = 0
    /\ in_macro' = FALSE
    /\ pc' = "write"
    /\ UNCHANGED <<i, has_errors, result, as_file, current_macro_name,
                   macro_table, am_lines>>
    /\ MacroFrame

\* fopen(am_filename, "w") fails.
OpenOutputFails ==
    /\ pc = "open"
    /\ result' = EXIT_WRITE_ERROR
    /\ pc' = "preprocessed"
    /\ UNCHANGED <<i, has_errors>>
    /\ UNCHANGED macro_vars
    /\ MacroFrame

\* The write pass reads a line.
WriteLine ==
    /\ pc = "write"
    /\ pp_line < Len(as_file)
    /\ pp_line' = pp_line + 1
    /\ SetMacro(write_line(M, as_file[pp_line + 1]))
    /\ UNCHANGED <<pc, i, has_errors, result, as_file, am_opened>>
    /\ MacroFrame

\* The write pass is at the end of the file: preprocess returns success.
WriteEnd ==
    /\ pc = "write"
    /\ pp_line = Len(as_file)
    /\ macro_table' = free_macro_table
    /\ result' = EXIT_SUCCESS_CODE
    /\ pc' = "preprocessed"
    /\ UNCHANGED <<i, has_errors, as_file, pp_line, in_macro,
                   current_macro_name, am_opened, am_lines>>
    /\ MacroFrame

\* The rest of assemble, which does not use the macro table, and main's
\* loop: after a failed preprocess assemble returns its code; after a
\* successful one the passes run and succeed or fail. The locals of
\* preprocess are gone.
AssembleReturn ==
    /\ pc = "preprocessed"
    /\ \E res \in IF result = EXIT_SUCCESS_CODE
                  THEN {EXIT_SUCCESS_CODE, EXIT_FIRST_PASS_ERROR}
                  ELSE {result} :
          /\ result' = res
          /\ has_errors' = (has_errors \/ res \notin {EXIT_SUCCESS_CODE,
                                                      EXIT_FILE_EMPTY})
    /\ i' = i + 1
    /\ pc' = "main"
    /\ as_file' = <<>>
    /\ pp_line' = 0
    /\ in_macro' = FALSE
    /\ current_macro_name' = ""
    /\ am_opened' = FALSE
    /\ am_lines' = <<>>
    /\ UNCHANGED macro_table
    /\ MacroFrame

InitMacro == \E n \in 1..(MaxUnits + 1) : InitWith(n, "main", 0, NoCall)

NextMacro ==
    \/ PreprocessNoFile
    \/ PreprocessBegin
    \/ PreliminaryLine
    \/ PreliminaryEnd
    \/ OpenOutput
    \/ OpenOutputFails
    \/ WriteLine
    \/ WriteEnd
    \/ AssembleReturn
    \/ MainReturn

SpecMacro == InitMacro /\ [][NextMacro]_vars

PreliminaryErrors ==
    {EXIT_MACRO_SYNTAX_ERROR, EXIT_MACRO_RESERVED_WORD, EXIT_MACRO_EXTRA_TEXT,
     EXIT_MACRO_MISSING_END}

\* C11. Fresh macro table: whenever main's loop is about to preprocess a
\* unit, the macro table is empty, whatever the units before it came to.
FreshMacroTable == (pc = "main" /\ i < argc) => macro_table = <<>>

\* C12. Macro fixed point: when preprocess succeeds on a source none of whose
\* lines has mcro as its first word, the expanded output has one line per
\* input line, in the same order, each the input line without its leading
\* white space.
MacroFixedPoint ==
    (/\ pc = "preprocessed"
     /\ result = EXIT_SUCCESS_CODE
     /\ \A k \in 1..Len(as_file) : get_first_word(as_file[k]) # "mcro")
    => am_lines = [k \in 1..Len(as_file) |-> skip_leading_space(as_file[k])]

\* Whether the expander is collecting a body after the first k lines of the
\* file: after a mcro line and before its mcroend.
RECURSIVE CollectingBody(_, _)
CollectingBody(file, k) ==
    IF k = 0 THEN FALSE
    ELSE LET before == CollectingBody(file, k - 1)
             first_word == get_first_word(file[k])
         IN IF ~before THEN first_word = "mcro"
            ELSE first_word # "mcroend"

\* C13. Nested macro definition: once the preliminary pass has read a line
\* whose first token is mcro while the body of a macro is collected,
\* preprocess has returned a macro syntax error, and no stored body line has
\* mcro as its first token.
NestedMacroDefinition ==
    /\ (/\ pc \in {"preliminary", "open", "write", "preprocessed"}
        /\ \E k \in 1..(IF pc = "write" THEN Len(as_file) ELSE pp_line) :
              /\ CollectingBody(as_file, k - 1)
              /\ get_first_word(as_file[k]) = "mcro")
       => (pc = "preprocessed" /\ result = EXIT_MACRO_SYNTAX_ERROR)
    /\ \A k \in 1..Len(macro_table) :
          \A j \in 1..Len(macro_table[k].lines) :
             get_first_word(macro_table[k].lines[j]) # "mcro"

\* C14. Preliminary pass gates the write pass: the output is opened only
\* when the preliminary pass has read the whole input and is outside every
\* macro, lines are written only to an opened output, and when the
\* preliminary pass returns an error the output is not opened and nothing is
\* written to it.
PreliminaryGate ==
    /\ pc = "open" => (pp_line = Len(as_file) /\ ~in_macro)
    /\ am_opened => pc \in {"write", "preprocessed"}
    /\ ~am_opened => am_lines = <<>>
    /\ (pc = "preprocessed" /\ result \in PreliminaryErrors)
       => (~am_opened /\ am_lines = <<>>)

\* The preliminary pass has found a macro without mcroend and preprocess has
\* returned without opening the output.
PreliminaryGateWitness ==
    /\ pc = "preprocessed"
    /\ result = EXIT_MACRO_MISSING_END
    /\ as_file # <<>>
    /\ ~am_opened

\* ------------------------------------------------------- pass-level claims

\* Whether the first pass records an error for the line when it is the only
\* line of the source.
ErrorAlone(line) ==
    process_line(first_pass_begin(Globals(BASE_IC_ADDRESS, 0, FALSE, <<>>, <<>>,
                                          <<>>)), line).err_found

\* Whether the line defines its label: a valid label on a data directive or
\* on an instruction.
DefinesLabel(line) ==
    /\ line.label # ""
    /\ is_valid_label(line.label)
    /\ line.token \in {".data", ".string", ".mat"} \/ is_instruction(line.token)

\* C21. The first pass does not stop at the first error: whatever the lines
\* before it recorded, every line read so far has its label in the symbol
\* table and its own error recorded, and when the pass has returned failure
\* the labels of all the lines of the source are in the table it built.
FirstPassContinues ==
    /\ pc = "first_pass" =>
          \A k \in 1..line_num :
             /\ DefinesLabel(src[k]) => find_symbol(symbol_table, src[k].label) # 0
             /\ ErrorAlone(src[k]) => err_found
    /\ (pc = "cleanup" /\ result = EXIT_FIRST_PASS_ERROR) =>
          /\ fp_result.valid
          /\ \A k \in 1..Len(src) :
                DefinesLabel(src[k])
                => find_symbol(fp_result.symbols, src[k].label) # 0

\* The first pass has read a line that defines a label after a line that
\* recorded an error.
FirstPassContinuesWitness ==
    /\ pc = "first_pass"
    /\ line_num >= 2
    /\ ErrorAlone(src[1])
    /\ DefinesLabel(src[line_num])
    /\ find_symbol(symbol_table, src[line_num].label) # 0

\* The results of assemble that stand for a failed unit.
FailureCodes ==
    {EXIT_FILE_NOT_FOUND, EXIT_MACRO_SYNTAX_ERROR, EXIT_FIRST_PASS_ERROR,
     EXIT_SECOND_PASS_ERROR, EXIT_WRITE_ERROR}

BodyCollection ==
    /\ (/\ pc = "preliminary"
        /\ pp_line > 0
        /\ CollectingBody(as_file, pp_line - 1)
        /\ get_first_word(as_file[pp_line]) # "mcroend")
       => LET n == find_macro(macro_table, current_macro_name)
          IN /\ n # 0
             /\ macro_table[n].lines # <<>>
             /\ macro_table[n].lines[Len(macro_table[n].lines)] = as_file[pp_line]
    /\ (/\ pc = "write"
        /\ \A k \in 1..pp_line :
              CollectingBody(as_file, k) \/ CollectingBody(as_file, k - 1))
       => am_lines = <<>>
    /\ (/\ pc = "write"
        /\ pp_line > 0
        /\ ~CollectingBody(as_file, pp_line)
        /\ ~CollectingBody(as_file, pp_line - 1)
        /\ find_macro(macro_table, get_first_word(as_file[pp_line])) # 0)
       => LET n == find_macro(macro_table, get_first_word(as_file[pp_line]))
              lines == macro_table[n].lines
          IN /\ Len(am_lines) >= Len(lines)
             /\ \A j \in 1..Len(lines) :
                   am_lines[Len(am_lines) - Len(lines) + j]
                   = skip_leading_space(lines[j])

\* ----------------------------------------------- data-directive specification
\* handle_data_directive called on one directive line, on the globals as
\* first_pass initialises them.

\* Values at and next to the ends of the range of a word.
DirectiveValues == {MinWord - 1, MinWord, MaxWord, MaxWord + 1}

\* Character codes: one below the printable range, a letter, one above.
DirectiveChars == {31, 97, 127}

DirectiveLines ==
    {DataLine(label, values) :
        label \in {"", "B"}, values \in SeqsUpTo(DirectiveValues, MaxValues)}
    \cup {MatLine("", rows, cols, values) :
            rows \in 1..2, cols \in 1..2,
            values \in SeqsUpTo(DirectiveValues, MaxValues)}
    \cup {Line("", ".string", <<>>, "", 0, 0, chars) :
            chars \in SeqsUpTo(DirectiveChars, MaxValues)}

InitData ==
    \E line \in DirectiveLines :
       InitWith(1, "directive", 0, [op |-> "handle_data_directive", line |-> line])

ParseDirective ==
    /\ pc = "directive"
    /\ SetGlobals(handle_data_directive(first_pass_begin(G), call.line))
    /\ pc' = "parsed"
    /\ UNCHANGED <<argc, i, has_errors, result, exit_code, src, line_num, ICF,
                   DCF, instruction_index, current_ic, context, written,
                   emitted, appended, fp_result, prev_fp>>
    /\ UNCHANGED codec_vars
    /\ UNCHANGED call_vars
    /\ UNCHANGED macro_vars

NextData == ParseDirective

SpecData == InitData /\ [][NextData]_vars

\* C30. Data words are valid words: when a data directive has been parsed
\* without error, every word of the data image is in -512..511, whichever
\* of .data, .string and .mat appended it, and DC is the number of words in
\* the data image.
DataWordsValid ==
    (pc = "parsed" /\ ~err_found) =>
       /\ \A k \in 1..Len(data_image) :
             data_image[k] >= MinWord /\ data_image[k] <= MaxWord
       /\ DC = Len(data_image)

\* C29. Instruction image is contiguous: after a second pass that returned
\* success, the image holds for every plan exactly word_count words, at
\* ic_address, ..., ic_address + word_count - 1, its addresses are 100, 101,
\* ..., ICF - 1 in this order, and the instruction count of the header,
\* ICF - 100, is the number of instruction words.
ImageContiguous ==
    pc = "output" =>
       LET image == context.instruction_image
       IN /\ \A k \in 1..Len(image) :
                image[k].address = BASE_IC_ADDRESS + k - 1
          /\ Len(image) = context.ICF - BASE_IC_ADDRESS
          /\ \A n \in 1..Len(instruction_table) :
                LET plan == instruction_table[n]
                IN /\ plan.word_count >= 1
                   /\ plan.ic_address =
                         IF n = 1 THEN BASE_IC_ADDRESS
                         ELSE instruction_table[n - 1].ic_address
                              + instruction_table[n - 1].word_count
                   /\ plan.ic_address + plan.word_count - 1
                      <= BASE_IC_ADDRESS + Len(image) - 1
          /\ Len(instruction_table) > 0 =>
                LET last == instruction_table[Len(instruction_table)]
                IN last.ic_address + last.word_count = context.ICF
          /\ Len(instruction_table) = 0 => image = <<>>

\* ------------------------------------------------------------ source text
\* The parsers read characters.  The operators below read a line's text the
\* way the code does and hand the tokens to the operators above.

\* The first index from `from` on where s holds c, or 0.
strchr(s, c, from) ==
    LET found == {k \in from..Len(s) : Char(s, k) = c}
    IN IF found = {} THEN 0
       ELSE CHOOSE k \in found : \A j \in found : k <= j

RECURSIVE skip_space(_, _)
\* while (isspace(*p)) p++;
skip_space(s, k) == IF isspace(Char(s, k)) THEN skip_space(s, k + 1) ELSE k

RECURSIVE skip_space_back(_, _)
\* while (p > s && isspace(*p)) p--;
skip_space_back(s, k) ==
    IF k > 1 /\ isspace(Char(s, k)) THEN skip_space_back(s, k - 1) ELSE k

\* trim_whitespace: leading and trailing whitespace removed.
trim_whitespace(s) ==
    LET first == skip_space(s, 1)
    IN IF first > Len(s) THEN ""
       ELSE SubSeq(s, first, skip_space_back(s, Len(s)))

RECURSIVE without_space(_)
\* The copy loop of parse_operand: every whitespace character is dropped.
without_space(s) ==
    IF Len(s) = 0 THEN ""
    ELSE IF isspace(Char(s, 1)) THEN without_space(SubSeq(s, 2, Len(s)))
    ELSE Char(s, 1) \o without_space(SubSeq(s, 2, Len(s)))

\* remove_comments on a line's text: cut at the first ';'.
cut_comment(line) ==
    LET semi == strchr(line, ";", 1)
    IN IF semi = 0 THEN line ELSE SubSeq(line, 1, semi - 1)

RECURSIVE strtol_digits(_, _, _)
strtol_digits(s, k, acc) ==
    IF isdigit(Char(s, k))
    THEN strtol_digits(s, k + 1, acc * 10 + DigitValue(Char(s, k)))
    ELSE [value |-> acc, endptr |-> k]

\* strtol(s, &endptr, 10): leading whitespace, an optional sign, digits.
\* endptr is the index of the first character not converted, 1 if nothing
\* was converted.
strtol(s) ==
    LET start == skip_space(s, 1)
        sign == Char(s, start)
        first == IF sign = "-" \/ sign = "+" THEN start + 1 ELSE start
        d == strtol_digits(s, first, 0)
    IN IF d.endptr = first THEN [value |-> 0, endptr |-> 1]
       ELSE [value |-> IF sign = "-" THEN 0 - d.value ELSE d.value,
             endptr |-> d.endptr]

RECURSIVE span(_, _, _, _)
\* The first index from k on whose character is (stop = TRUE) or is not
\* (stop = FALSE) one of delims; Len(s) + 1 if there is none.
span(s, k, delims, stop) ==
    IF k > Len(s) THEN Len(s) + 1
    ELSE IF Among(Char(s, k), delims) = stop THEN k
    ELSE span(s, k + 1, delims, stop)

\* strtok: the next token of s (leading delimiters skipped; "" when strtok
\* returns NULL) and the text after the delimiter that ended it.
strtok(s, delims) ==
    LET start == span(s, 1, delims, FALSE)
        stop == span(s, start, delims, TRUE)
    IN [token |-> SubSeq(s, start, stop - 1),
        rest |-> SubSeq(s, stop + 1, Len(s))]

\* is_register on text: the register number, -1 when is_register
\* returns FALSE.
register_number(str) ==
    IF Len(str) = 2 /\ Char(str, 1) = "r" /\ Among(Char(str, 2), "01234567")
    THEN DigitValue(Char(str, 2))
    ELSE -1

\* The '#' branch of parse_operand and is_immediate on text: the number
\* read, MaxWord + 1 when the text is refused before the range test.
immediate_number(operand_str, trimmed) ==
    LET hash == strchr(operand_str, "#", 1)
        num_start == SubSeq(trimmed, 2, Len(trimmed))
        n == strtol(num_start)
    IN IF Char(operand_str, hash + 1) = " " \/ Char(operand_str, hash + 1) = "\t"
       THEN MaxWord + 1
       ELSE IF Char(trimmed, 2) = "#" THEN MaxWord + 1
       ELSE IF Len(num_start) = 0 \/ Char(num_start, n.endptr) # ""
       THEN MaxWord + 1
       ELSE n.value

\* The bracket search of is_matrix_reference: label part and the two
\* register texts; an empty name when a bracket is missing or the label
\* part is empty or longer than MAX_LABEL_LENGTH.
matrix_text(str) ==
    LET br1 == strchr(str, "[", 1)
        br2 == IF br1 = 0 THEN 0 ELSE strchr(str, "]", br1 + 1)
        br3 == IF br2 = 0 THEN 0 ELSE strchr(str, "[", br2)
        br4 == IF br3 = 0 THEN 0 ELSE strchr(str, "]", br3)
        label_len == br1 - 1
    IN IF br4 = 0 \/ label_len <= 0 \/ label_len > MAX_LABEL_LENGTH
       THEN OpMat("", -1, -1)
       ELSE OpMat(SubSeq(str, 1, label_len),
                  register_number(without_space(SubSeq(str, br1 + 1, br2 - 1))),
                  register_number(without_space(SubSeq(str, br3 + 1, br4 - 1))))

\* The tests parse_operand makes on the operand's text, in its order:
\* first character '#', first character 'r', a '[' anywhere, else a label.
scan_operand(operand_str) ==
    LET trimmed == without_space(operand_str)
    IN IF Char(trimmed, 1) = "#"
       THEN OpImm(immediate_number(operand_str, trimmed))
       ELSE IF Char(trimmed, 1) = "r" THEN OpReg(register_number(trimmed))
       ELSE IF strchr(trimmed, "[", 1) # 0 THEN matrix_text(trimmed)
       ELSE OpLabel(trimmed)

RECURSIVE operand_tokens(_)
\* The strtok(NULL, ",") loop of parse_instruction: leading whitespace is
\* trimmed from each token and empty tokens are skipped.
operand_tokens(s) ==
    LET t == strtok(s, ",")
        token == SubSeq(t.token, skip_space(t.token, 1), Len(t.token))
    IN IF Len(t.token) = 0 THEN <<>>
       ELSE (IF Len(token) = 0 THEN <<>> ELSE <<token>>) \o operand_tokens(t.rest)

\* The tokens parse_instruction reads from the text after the label.
scan_instruction(line) ==
    LET name == strtok(cut_comment(line), " \t")
        tokens == operand_tokens(name.rest)
    IN InstructionLine("", name.token,
                       [k \in 1..Len(tokens) |-> scan_operand(tokens[k])])

RECURSIVE count_numbers(_, _, _)
\* number_count of has_missing_commas from index k on.
count_numbers(s, k, in_number) ==
    IF Char(s, k) = "" \/ Char(s, k) = ";" THEN 0
    ELSE IF isdigit(Char(s, k)) \/ (Char(s, k) = "-" /\ isdigit(Char(s, k + 1)))
    THEN (IF in_number THEN 0 ELSE 1) + count_numbers(s, k + 1, TRUE)
    ELSE count_numbers(s, k + 1, FALSE)

has_missing_commas(line) ==
    LET start == skip_space(line, 1)
        semi == strchr(line, ";", start)
        stop == IF semi = 0 THEN Len(line) ELSE semi - 1
        number_count == count_numbers(line, start, FALSE)
        comma_count == Cardinality({k \in start..stop : Char(line, k) = ","})
    IN number_count > 1 /\ comma_count # number_count - 1

RECURSIVE data_tokens(_)
\* The strtok(",") loop of parse_data_values: the numbers converted before
\* the loop ends, and whether it ended at a token that is not a number.
data_tokens(s) ==
    LET t == strtok(s, ",")
        token == trim_whitespace(t.token)
        n == strtol(token)
    IN IF Len(t.token) = 0 THEN [values |-> <<>>, error |-> FALSE]
       ELSE IF Len(token) = 0 \/ Char(token, n.endptr) # "" \/ n.endptr = 1
       THEN [values |-> <<>>, error |-> TRUE]
       ELSE LET more == data_tokens(t.rest)
            IN [values |-> <<n.value>> \o more.values, error |-> more.error]

\* The checks parse_data_values makes before it splits the text: empty,
\* leading comma, trailing comma, two commas with only whitespace between,
\* missing comma.
data_syntax_error(line) ==
    LET text == SubSeq(line, skip_space(line, 1), Len(line))
    IN \/ Len(text) = 0
       \/ Char(text, 1) = ","
       \/ Char(text, skip_space_back(text, Len(text))) = ","
       \/ \E a, b \in 1..Len(text) :
             /\ a < b
             /\ Char(text, a) = ","
             /\ Char(text, b) = ","
             /\ \A k \in (a + 1)..(b - 1) : isspace(Char(text, k))
       \/ has_missing_commas(text)

\* parse_data_values on the text after ".data".
parse_data_text(g, line) ==
    LET text == SubSeq(line, skip_space(line, 1), Len(line))
        r == data_tokens(text)
        stored == IF Len(r.values) = 0 THEN g ELSE DataValuesLoop(g, r.values, 1)
    IN IF data_syntax_error(line) THEN ReportError(g)
       ELSE IF r.error THEN ReportError(stored)
       ELSE stored

\* fgets(line, size, file) at position pos of the file's text: at most
\* size - 1 characters, ending after a newline.
fgets(stream, pos, size) ==
    LET nl == strchr(stream, "\n", pos)
        full == pos + size - 2
        stop == IF nl # 0 /\ nl <= full THEN nl
                ELSE IF full <= Len(stream) THEN full
                ELSE Len(stream)
    IN SubSeq(stream, pos, stop)

RECURSIVE write_plain_lines(_, _)
\* The write loop of preprocess on text with no macro definition, macro
\* call, .entry or .extern: what it writes to the .am file.
write_plain_lines(stream, pos) ==
    IF pos > Len(stream) THEN ""
    ELSE LET line == fgets(stream, pos, MAX_LINE_LENGTH)
             ptr == skip_space(line, 1)
         IN (IF ptr > Len(line) THEN "" ELSE SubSeq(line, ptr, Len(line)))
            \o write_plain_lines(stream, pos + Len(line))

RECURSIVE read_lines(_, _)
\* The fgets loop of first_pass: each line it reads, trimmed, and whether
\* the length check reported it.  feof is set only by a read that met the
\* end of the file, so a full buffer without a newline is always reported.
read_lines(stream, pos) ==
    IF pos > Len(stream) THEN <<>>
    ELSE LET line == fgets(stream, pos, MAX_LINE_LENGTH)
             feof == pos + Len(line) > Len(stream)
                     /\ Len(line) < MAX_LINE_LENGTH - 1
             too_long == strchr(line, "\n", 1) = 0 /\ ~feof
             next == pos + Len(line)
             nl == strchr(stream, "\n", next)
             after == IF ~too_long THEN next
                      ELSE IF nl = 0 THEN Len(stream) + 1
                      ELSE nl + 1
         IN <<[line |-> trim_whitespace(line), too_long |-> too_long]>>
            \o read_lines(stream, after)

\* ------------------------------------------------ source text specification
\* One call of a function that reads text: parse_operand, is_valid_label,
\* parse_instruction, parse_data_values, or the reading of a source file by
\* preprocess and first_pass.

\* Longest name tried as a label.
MaxNameLength == 32

\* Longest source line tried.
MaxTextLength == 82

RECURSIVE Repeat(_, _)
\* n copies of c.
Repeat(c, n) ==
    IF n <= 0 THEN ""
    ELSE LET half == Repeat(c, n \div 2)
         IN half \o half \o (IF n % 2 = 1 THEN c ELSE "")

\* A name of n characters made of letters and digits.
NameOfLength(n) == "L" \o Repeat("2", n - 1)

NameLengths == {1, MAX_LABEL_LENGTH - 1, MAX_LABEL_LENGTH, MaxNameLength}

MatrixNames == {"M", "rows", "r1", "mov"} \cup {NameOfLength(n) : n \in NameLengths}

RegisterDigits == {"0", "7", "8"}

\* The operand text NAME[rA][rB].
MatrixForm(name, a, b) == name \o "[r" \o a \o "][r" \o b \o "]"

OperandTexts ==
    {MatrixForm(name, a, b) : name \in MatrixNames, a \in RegisterDigits, b \in RegisterDigits}
    \cup {"#5", "#-512", "#512", "# 5", "##5", "#", "#x", "#+7"}
    \cup {"r0", "r7", "r8", "r10", " r3 "}
    \cup {"A", "result", "mov", "M[r1]", "[r1][r2]", "a-b"}
    \cup {NameOfLength(n) : n \in NameLengths}

LabelTexts ==
    {NameOfLength(n) : n \in NameLengths}
    \cup {"", "A", "a_b", "1a", "a-b", "mov", "r3", ".data", "rows"}

InstructionTexts ==
    {"mov r1,r2", "mov r1, r2", "mov ,r1,r2", "mov r1,r2,", "mov r1,,r2",
     "mov r1 r2", "mov r1,r2,r3", "mov r1", "mov r1,r2 ; copy", "mov r1;,r2",
     "inc A", "inc ,A", "inc A,", "inc A B", "inc A,B", "prn #1", "prn #1,",
     "stop", "stop ,", "stop ;done", "stop r1", "xyz r1", "", "lea M[r1][r2],r3",
     "lea M[r1][r2] r3"}

DataTexts ==
    {"7", " 7", "7,8", "7 , 8", "7 ;c", "7;c", "7, 8 ; two", "7 ; a,b", "7,,8",
     ",7", "7,", "7 8", "x", "7x", "600", "-512, 511", "-513", "", " ", "+7",
     "7 ;8", "7, ;c", "-", "7,8,9"}

TextLengths == {10, MAX_LINE_LENGTH - 2, MAX_LINE_LENGTH - 1, MAX_LINE_LENGTH, MaxTextLength}

\* A source line of n characters: an instruction and a comment.
TextOfLength(n) == "stop ;" \o Repeat("-", n - 6)

SourceTexts ==
    {<<TextOfLength(n)>> : n \in TextLengths}
    \cup {<<TextOfLength(n), TextOfLength(m)>> : n \in TextLengths, m \in TextLengths}

RECURSIVE FileText(_, _)
\* The file whose lines are lines[k..], each ended by a newline.
FileText(lines, k) ==
    IF k > Len(lines) THEN "" ELSE lines[k] \o "\n" \o FileText(lines, k + 1)

TextCall(op, text) == [op |-> op, text |-> text]

TextCalls ==
    {TextCall("parse_operand", t) : t \in OperandTexts}
    \cup {TextCall("is_valid_label", t) : t \in LabelTexts}
    \cup {TextCall("parse_instruction", t) : t \in InstructionTexts}
    \cup {TextCall("parse_data_values", t) : t \in DataTexts}
    \cup {TextCall("first_pass", FileText(lines, 1)) : lines \in SourceTexts}

InitText == \E c \in TextCalls : InitWith(1, "text", 0, c)

TextFrame ==
    /\ pc' = "read"
    /\ UNCHANGED <<argc, i, has_errors, result, exit_code, src, line_num, ICF,
                   DCF, instruction_index, current_ic, context, written,
                   emitted, appended, fp_result, prev_fp, call>>
    /\ UNCHANGED codec_vars
    /\ UNCHANGED macro_vars

GlobalsUnchanged ==
    UNCHANGED <<IC, DC, err_found, instruction_table, symbol_table, data_image>>

ParseOperand ==
    /\ pc = "text"
    /\ call.op = "parse_operand"
    /\ ret' = parse_operand(scan_operand(call.text))
    /\ GlobalsUnchanged
    /\ TextFrame

IsValidLabel ==
    /\ pc = "text"
    /\ call.op = "is_valid_label"
    /\ ret' = is_valid_label(call.text)
    /\ GlobalsUnchanged
    /\ TextFrame

ParseInstruction ==
    /\ pc = "text"
    /\ call.op = "parse_instruction"
    /\ ret' = parse_instruction(scan_instruction(call.text))
    /\ GlobalsUnchanged
    /\ TextFrame

ParseDataValues ==
    /\ pc = "text"
    /\ call.op = "parse_data_values"
    /\ SetGlobals(parse_data_text(first_pass_begin(G), call.text))
    /\ ret' = "void"
    /\ TextFrame

ReadSource ==
    /\ pc = "text"
    /\ call.op = "first_pass"
    /\ ret' = read_lines(write_plain_lines(call.text, 1), 1)
    /\ GlobalsUnchanged
    /\ TextFrame

NextText ==
    \/ ParseOperand
    \/ IsValidLabel
    \/ ParseInstruction
    \/ ParseDataValues
    \/ ReadSource

SpecText == InitText /\ [][NextText]_vars

\* C24. Operand decision order: every operand text NAME[rA][rB] whose NAME
\* is a valid label and whose A and B are in 0..7 is read by parse_operand
\* as a Matrix operand, also when NAME begins with the letter r.
OperandDecisionOrder ==
    \A name \in MatrixNames, a \in RegisterDigits, b \in RegisterDigits :
        (/\ pc = "read"
         /\ call.op = "parse_operand"
         /\ call.text = MatrixForm(name, a, b)
         /\ is_valid_label(name)
         /\ Among(a, "01234567")
         /\ Among(b, "01234567"))
        => ret.ok /\ ret.operand.mode = ADDRESSING_MATRIX

\* The operand list of an instruction line: the text after the mnemonic,
\* without the comment and the surrounding whitespace.
OperandList(line) == trim_whitespace(strtok(cut_comment(line), " \t").rest)

\* The operand list has a leading comma, a trailing comma, two commas with
\* nothing but whitespace between them, or whitespace between two operands
\* with no comma on either side of it.
CommaFault(line) ==
    LET list == OperandList(line)
    IN \/ Char(list, 1) = ","
       \/ Char(list, Len(list)) = ","
       \/ \E a, b \in 1..Len(list) :
             /\ a < b
             /\ Char(list, a) = ","
             /\ Char(list, b) = ","
             /\ \A k \in (a + 1)..(b - 1) : isspace(Char(list, k))
       \/ \E k \in 1..Len(list) :
             /\ isspace(Char(list, k))
             /\ Char(list, skip_space_back(list, k)) # ","
             /\ Char(list, skip_space(list, k)) # ","

\* C25. Comma errors in instructions: every instruction line whose operand
\* list has a leading comma, a trailing comma, two consecutive commas, or
\* two operands separated by whitespace without a comma is rejected by
\* parse_instruction, so no plan is recorded for it.
CommaErrors ==
    (pc = "read" /\ call.op = "parse_instruction" /\ CommaFault(call.text))
    => ~ret.ok

\* C26. Comment stripping: parsing a line gives the same result (data words
\* appended, DC, plan, errors) as parsing the line with everything from
\* the first ';' on removed, for instruction lines and for .data lines.
CommentStripping ==
    pc = "read" =>
        /\ call.op = "parse_instruction"
              => ret = parse_instruction(scan_instruction(cut_comment(call.text)))
        /\ call.op = "parse_data_values"
              => G = parse_data_text(
                         Globals(BASE_IC_ADDRESS, 0, FALSE, <<>>, <<>>, <<>>),
                         cut_comment(call.text))

\* C27. Label length: is_valid_label accepts a name only if its length is
\* at most 30, and an operand whose name (alone, or before the brackets of
\* a matrix operand) has 31 or more characters is rejected.
LabelLength ==
    pc = "read" =>
        /\ (call.op = "is_valid_label" /\ ret) => Len(call.text) <= 30
        /\ \A n \in NameLengths, a \in RegisterDigits, b \in RegisterDigits :
              (/\ call.op = "parse_operand"
               /\ n >= 31
               /\ call.text \in {NameOfLength(n), MatrixForm(NameOfLength(n), a, b)})
              => ~ret.ok

\* C28. Line length: the first pass reads one line per source line, reports
\* a line as too long exactly when it has more than 80 characters, and
\* reads a line of at most 80 characters whole.
LineLength ==
    \A lines \in SourceTexts :
        (pc = "read" /\ call.op = "first_pass" /\ call.text = FileText(lines, 1))
        => /\ Len(ret) = Len(lines)
           /\ \A k \in 1..Len(lines) :
                 /\ ret[k].too_long <=> Len(lines[k]) > 80
                 /\ Len(lines[k]) <= 80 => ret[k].line = lines[k]

====
